---- MODULE Spec2Model ----
(***************************************************************************)
(* Health / alerting core of SentimentSense.                               *)
(*                                                                         *)
(*   app/health.py   HealthChecker.check_all   (aggregation of the probes) *)
(*   app/alerts.py   AlertManager.send_alert   (cooldown, history, fan-out)*)
(*   app/alerts.py   HealthMonitor.check_and_alert  (transition tracker)   *)
(*                                                                         *)
(* Time is counted in minutes.  Strings that the code concatenates are     *)
(* sequences of tokens, so that concatenation is modelled by \o.           *)
(* Every coroutine of the module runs to completion without suspending     *)
(* (the channel code performs blocking calls only), so a handler is one    *)
(* atomic action.                                                          *)
(***************************************************************************)
EXTENDS Integers, Sequences, FiniteSets, TLC

VARIABLES
    now,                  \* datetime.utcnow(), in minutes
    settings,             \* config.Settings: which channels are configured
    alert_history,        \* AlertManager.alert_history
    alert_cooldown,       \* AlertManager.alert_cooldown: key -> last sent
    last_health_status,   \* HealthMonitor.last_health_status
    consecutive_failures, \* HealthMonitor.consecutive_failures
    env,                  \* what the probes read from the system
    health_result,        \* the OverallHealth last returned by check_all
    op,                   \* the operation that ran last
    calls,                \* the send_alert calls made by the last operation
    tasks,                \* the coroutines in flight on the event loop
    health_checker        \* the HealthChecker instance: start_time, checks

vars == <<now, settings, alert_history, alert_cooldown, last_health_status,
          consecutive_failures, env, health_result, op, calls, tasks,
          health_checker>>

----------------------------------------------------------------------------
(* Bounds of the exploration *)

MaxTime == 20
MaxHistory == 2
MaxFailures == 4
MaxSends == 1003
MaxClock == 120
MaxBatch == 4

\* the clock is sampled: 10 is inside the cooldown window, 15 is the window,
\* 20 (two steps of 10) is past it
TickSteps == {10, 15}

----------------------------------------------------------------------------
(* app/alerts.py: AlertLevel, Alert *)

INFO == "info"
WARNING == "warning"
ERROR == "error"
CRITICAL == "critical"

AlertLevel == {INFO, WARNING, ERROR, CRITICAL}

DefaultSource == <<"SentimentSense">>

Alert(title, level, source, timestamp) ==
    [title |-> title, level |-> level, source |-> source,
     timestamp |-> timestamp]

----------------------------------------------------------------------------
(* app/alerts.py: AlertManager *)

cooldown_period == 15

HistoryCapacity == 1000

Channels == {"email", "slack"}

None == "None"

\* alert_key = f"{alert.source}_{alert.title}"
alert_key(alert) == alert.source \o <<"_">> \o alert.title

\* variant: the cooldown never holds a send back
_should_send_alert_Always(cooldown, key, t) == TRUE

\* variant: a send is let through from the end of the window on
_should_send_alert_Inclusive(cooldown, key, t) ==
    IF key \notin DOMAIN cooldown
    THEN TRUE
    ELSE t - cooldown[key] >= cooldown_period

_should_send_alert(cooldown, key, t) ==
    IF key \notin DOMAIN cooldown
    THEN TRUE
    ELSE t - cooldown[key] > cooldown_period

\* variant: the truncation keeps the first 1000 alerts
AppendHistory_KeepOldest(history, alert) ==
    LET h == Append(history, alert)
    IN  IF Len(h) > HistoryCapacity
        THEN SubSeq(h, 1, HistoryCapacity)
        ELSE h

\* self.alert_history.append(alert), then the truncation to the last 1000
AppendHistory(history, alert) ==
    LET h == Append(history, alert)
    IN  IF Len(h) > HistoryCapacity
        THEN SubSeq(h, Len(h) - HistoryCapacity + 1, Len(h))
        ELSE h

\* variant: the e-mail channel needs no setting
ConfiguredChannels_EmailAlways(cfg) ==
    {c \in Channels : IF c = "email" THEN TRUE
                                     ELSE cfg.ALERT_SLACK_WEBHOOK}

\* the channels send_alert attempts: those whose setting is truthy
ConfiguredChannels(cfg) ==
    {c \in Channels : IF c = "email" THEN cfg.ALERT_EMAIL
                                     ELSE cfg.ALERT_SLACK_WEBHOOK}

\* variant: an exception of the email channel leaves send_alert, so that the
\* Slack channel is not attempted
DeliveredChannels_Abort(cfg, outcome) ==
    IF cfg.ALERT_EMAIL /\ ~outcome["email"]
    THEN {}
    ELSE {c \in ConfiguredChannels(cfg) : outcome[c]}

\* variant: the channels are used whether configured or not
DeliveredChannels_IgnoreSettings(cfg, outcome) ==
    {c \in Channels : outcome[c]}

\* a channel sets success when its coroutine returns without raising;
\* outcome[c] = TRUE means channel c returns normally
DeliveredChannels(cfg, outcome) ==
    {c \in ConfiguredChannels(cfg) : outcome[c]}

\* the cooldown map after `self.alert_cooldown[alert_key] = utcnow()`
SetCooldown(cooldown, key, t) ==
    [k \in (DOMAIN cooldown) \cup {key} |->
        IF k = key THEN t ELSE cooldown[k]]

\* variant: the Slack coroutine awaits the answer of the webhook
Suspends_Slack(channel) == channel = "slack"

\* variant: an alert stamped exactly at the cutoff is returned too
get_recent_alerts_Inclusive(history, hours, t) ==
    LET cutoff_time == t - hours * 60
    IN  SelectSeq(history, LAMBDA alert : alert.timestamp >= cutoff_time)

\* get_recent_alerts(hours) at time t (in minutes)
get_recent_alerts(history, hours, t) ==
    LET cutoff_time == t - hours * 60
    IN  SelectSeq(history, LAMBDA alert : alert.timestamp > cutoff_time)

\* variant: the channel coroutines await real input/output
Suspends_OnIO(channel) == TRUE

\* whether the coroutine of a channel has an await that gives the control
\* back to the event loop: _send_email_alert only logs, _send_slack_alert
\* calls the blocking requests.post
Suspends(channel) == FALSE

\* whether send_alert, once past the cooldown test, is suspended at one of
\* its awaits
SendYields(cfg) == \E c \in ConfiguredChannels(cfg) : Suspends(c)

\* variant: the alert is recorded before the cooldown is consulted
send_alert_RecordFirst(st, cfg, alert, outcome, t) ==
    LET key == alert_key(alert)
        recorded == AppendHistory(st.history, alert)
    IN  IF ~_should_send_alert(st.cooldown, key, t)
        THEN [history |-> recorded, cooldown |-> st.cooldown,
              call |-> [alert |-> alert, ret |-> FALSE,
                        attempted |-> {}, delivered |-> {}]]
        ELSE LET delivered == DeliveredChannels(cfg, outcome)
                 success == delivered # {}
             IN  [history |-> recorded,
                  cooldown |-> IF success
                               THEN SetCooldown(st.cooldown, key, t)
                               ELSE st.cooldown,
                  call |-> [alert |-> alert, ret |-> success,
                            attempted |-> ConfiguredChannels(cfg),
                            delivered |-> delivered]]

\* variant: the key is stamped after every attempt, delivered or not
send_alert_StampAlways(st, cfg, alert, outcome, t) ==
    LET key == alert_key(alert)
    IN  IF ~_should_send_alert(st.cooldown, key, t)
        THEN [history |-> st.history, cooldown |-> st.cooldown,
              call |-> [alert |-> alert, ret |-> FALSE,
                        attempted |-> {}, delivered |-> {}]]
        ELSE LET delivered == DeliveredChannels(cfg, outcome)
                 success == delivered # {}
             IN  [history |-> AppendHistory(st.history, alert),
                  cooldown |-> SetCooldown(st.cooldown, key, t),
                  call |-> [alert |-> alert, ret |-> success,
                            attempted |-> ConfiguredChannels(cfg),
                            delivered |-> delivered]]

\* send_alert as a function of the manager's state st = [history, cooldown]:
\* the state afterwards and the record of the call
send_alert(st, cfg, alert, outcome, t) ==
    LET key == alert_key(alert)
    IN  IF ~_should_send_alert(st.cooldown, key, t)
        THEN [history |-> st.history, cooldown |-> st.cooldown,
              call |-> [alert |-> alert, ret |-> FALSE,
                        attempted |-> {}, delivered |-> {}]]
        ELSE LET delivered == DeliveredChannels(cfg, outcome)
                 success == delivered # {}
             IN  [history |-> AppendHistory(st.history, alert),
                  cooldown |-> IF success
                               THEN SetCooldown(st.cooldown, key, t)
                               ELSE st.cooldown,
                  call |-> [alert |-> alert, ret |-> success,
                            attempted |-> ConfiguredChannels(cfg),
                            delivered |-> delivered]]

----------------------------------------------------------------------------
(* app/health.py: HealthStatus, ComponentHealth, the probes *)

HEALTHY == "healthy"
DEGRADED == "degraded"
UNHEALTHY == "unhealthy"

HealthStatus == {HEALTHY, DEGRADED, UNHEALTHY}

ComponentHealth(name, status) == [name |-> name, status |-> status]

\* what a probe coroutine hands to gather when it is not a ComponentHealth
NoComponent == [name |-> None, status |-> None]

IsComponentHealth(result) == result.status \in HealthStatus

\* _check_model: e.import_analyzer, e.is_healthy, e.test_result
_check_model(e) ==
    IF e.import_analyzer = "raise"
    THEN ComponentHealth("model", UNHEALTHY)
    ELSE IF ~e.is_healthy
    THEN ComponentHealth("model", UNHEALTHY)
    ELSE IF e.test_result = "raise"
    THEN ComponentHealth("model", DEGRADED)
    ELSE IF e.test_result = "truthy"
    THEN ComponentHealth("model", HEALTHY)
    ELSE NoComponent

\* variant: the thresholds belong to the worse status
UsageStatus_Inclusive(percent) ==
    IF percent >= 90 THEN UNHEALTHY
    ELSE IF percent >= 80 THEN DEGRADED
    ELSE HEALTHY

\* the thresholds of _check_memory and _check_disk
UsageStatus(percent) ==
    IF percent > 90 THEN UNHEALTHY
    ELSE IF percent > 80 THEN DEGRADED
    ELSE HEALTHY

\* variant: a failure of psutil leaves the memory probe
_check_memory_Raises(e) ==
    IF e.memory < 0
    THEN NoComponent
    ELSE ComponentHealth("memory", UsageStatus(e.memory))

_check_memory(e) ==
    IF e.memory < 0
    THEN ComponentHealth("memory", UNHEALTHY)
    ELSE ComponentHealth("memory", UsageStatus(e.memory))

_check_disk(e) ==
    IF e.disk < 0
    THEN ComponentHealth("disk", DEGRADED)
    ELSE ComponentHealth("disk", UsageStatus(e.disk))

_check_dependencies(e) ==
    IF e.dependencies = "raise"
    THEN ComponentHealth("dependencies", UNHEALTHY)
    ELSE IF e.dependencies = "missing"
    THEN ComponentHealth("dependencies", UNHEALTHY)
    ELSE ComponentHealth("dependencies", HEALTHY)

\* HealthChecker.checks, in insertion order
checks == <<"model", "memory", "disk", "dependencies">>

RunCheck(name, e) ==
    CASE name = "model" -> _check_model(e)
      [] name = "memory" -> _check_memory(e)
      [] name = "disk" -> _check_disk(e)
      [] name = "dependencies" -> _check_dependencies(e)

\* results = await asyncio.gather(*tasks, return_exceptions=True)
gather(e) == [i \in DOMAIN checks |-> RunCheck(checks[i], e)]

\* variant: a result that is no ComponentHealth is left out
CollectComponents_DropFailed(results) ==
    SelectSeq(results, IsComponentHealth)

\* a probe coroutine that has not returned yet
Pending == [name |-> None, status |-> "pending"]

\* variant: the results are kept in the order in which the probes return
StoreResult_CompletionOrder(results, i, r) ==
    LET first == CHOOSE k \in DOMAIN results :
                    /\ results[k] = Pending
                    /\ \A j \in 1..(k - 1) : results[j] # Pending
    IN  [results EXCEPT ![first] = r]

\* asyncio.gather puts the result of the i-th awaitable at position i
StoreResult(results, i, r) == [results EXCEPT ![i] = r]

\* the loop over results: a result that is no ComponentHealth becomes the
\* synthetic component "unknown"
\* variant: the synthetic component is named after its probe
CollectComponents_ProbeName(results) ==
    [i \in DOMAIN results |->
        IF IsComponentHealth(results[i])
        THEN results[i]
        ELSE ComponentHealth(checks[i], UNHEALTHY)]

CollectComponents(results) ==
    [i \in DOMAIN results |->
        IF IsComponentHealth(results[i])
        THEN results[i]
        ELSE ComponentHealth("unknown", UNHEALTHY)]

CountStatus(components, status) ==
    Cardinality({i \in DOMAIN components : components[i].status = status})

\* variant: the degraded count is tested before the unhealthy count
overall_status_DegradedFirst(components) ==
    LET unhealthy_count == CountStatus(components, UNHEALTHY)
        degraded_count == CountStatus(components, DEGRADED)
    IN  IF degraded_count > 0 THEN DEGRADED
        ELSE IF unhealthy_count > 0 THEN UNHEALTHY
        ELSE HEALTHY

overall_status(components) ==
    LET unhealthy_count == CountStatus(components, UNHEALTHY)
        degraded_count == CountStatus(components, DEGRADED)
    IN  IF unhealthy_count > 0 THEN UNHEALTHY
        ELSE IF degraded_count > 0 THEN DEGRADED
        ELSE HEALTHY

check_all(e) ==
    LET components == CollectComponents(gather(e))
    IN  [status |-> overall_status(components), components |-> components]

\* HealthChecker.__init__ at time t
HealthChecker(t) == [start_time |-> t, checks |-> checks]

\* variant: a failure of psutil leaves the metrics provider
get_health_metrics_Propagates(provider_ok) ==
    [raised |-> ~provider_ok,
     snapshot |-> IF provider_ok THEN {"memory", "cpu", "uptime"} ELSE {}]

\* metrics.get_health_metrics: the keys of the dictionary it returns;
\* provider_ok = FALSE means that psutil raises
get_health_metrics(provider_ok) ==
    [raised |-> FALSE,
     snapshot |-> IF provider_ok THEN {"memory", "cpu", "uptime"} ELSE {}]

\* variant: check_all restarts the uptime
CheckerAfter_Restart(hc, t) == [hc EXCEPT !.start_time = t]

\* the HealthChecker instance after a check_all call at time t: check_all
\* assigns no attribute of self
CheckerAfter(hc, t) == hc

\* check_all with the uptime and the metrics of the OverallHealth; fault
\* means that an exception nobody foresaw is raised inside check_all
check_all_full(hc, e, provider_ok, fault, t) ==
    LET h == check_all(e)
        metrics == get_health_metrics(provider_ok)
    IN  [raised |-> fault \/ metrics.raised,
         value |-> [status |-> h.status, components |-> h.components,
                    uptime |-> t - hc.start_time,
                    metrics |-> metrics.snapshot]]

----------------------------------------------------------------------------
(* app/alerts.py: the convenience senders and HealthMonitor *)

max_failures == 3

ComponentTitle(name) == <<"Component ", name, " Unhealthy">>

\* variant: the recovery alert is sent on leaving Degraded
TransitionAlerts_RecoverFromDegraded(last, current_status, t) ==
    IF last # None /\ last # current_status
    THEN IF current_status = UNHEALTHY
         THEN <<Alert(<<"Service Health Degraded">>, ERROR, DefaultSource, t)>>
         ELSE IF current_status = HEALTHY /\ last = DEGRADED
         THEN <<Alert(<<"Service Health Recovered">>, INFO, DefaultSource, t)>>
         ELSE << >>
    ELSE << >>

\* variant: the unset last_health_status counts as a status
TransitionAlerts_NoUnsetCheck(last, current_status, t) ==
    IF last # current_status
    THEN IF current_status = UNHEALTHY
         THEN <<Alert(<<"Service Health Degraded">>, ERROR, DefaultSource, t)>>
         ELSE IF current_status = HEALTHY /\ last = UNHEALTHY
         THEN <<Alert(<<"Service Health Recovered">>, INFO, DefaultSource, t)>>
         ELSE << >>
    ELSE << >>

\* variant: only the change from Healthy to Unhealthy is announced
TransitionAlerts_OnlyFromHealthy(last, current_status, t) ==
    IF last # None /\ last # current_status
    THEN IF current_status = UNHEALTHY /\ last = HEALTHY
         THEN <<Alert(<<"Service Health Degraded">>, ERROR, DefaultSource, t)>>
         ELSE IF current_status = HEALTHY /\ last = UNHEALTHY
         THEN <<Alert(<<"Service Health Recovered">>, INFO, DefaultSource, t)>>
         ELSE << >>
    ELSE << >>

\* variant: every change of status to Degraded or Unhealthy is announced
TransitionAlerts_AnyWorsening(last, current_status, t) ==
    IF last # None /\ last # current_status
    THEN IF current_status \in {UNHEALTHY, DEGRADED}
         THEN <<Alert(<<"Service Health Degraded">>, ERROR, DefaultSource, t)>>
         ELSE IF current_status = HEALTHY /\ last = UNHEALTHY
         THEN <<Alert(<<"Service Health Recovered">>, INFO, DefaultSource, t)>>
         ELSE << >>
    ELSE << >>

\* the alerts of one check_and_alert call, in the order of the calls to
\* send_*_alert, for the tracker state (last, failures) before the call
TransitionAlerts(last, current_status, t) ==
    IF last # None /\ last # current_status
    THEN IF current_status = UNHEALTHY
         THEN <<Alert(<<"Service Health Degraded">>, ERROR, DefaultSource, t)>>
         ELSE IF current_status = HEALTHY /\ last = UNHEALTHY
         THEN <<Alert(<<"Service Health Recovered">>, INFO, DefaultSource, t)>>
         ELSE << >>
    ELSE << >>

\* variant: the status is kept back when a send of the call returned false
NextLastStatus_OnDelivery(last, current_status, cs) ==
    IF \A k \in DOMAIN cs : cs[k].ret THEN current_status ELSE last

\* self.last_health_status = current_status, after the calls cs were made
NextLastStatus(last, current_status, cs) == current_status

\* variant: the counter is reset by a Healthy observation only
NextFailures_ResetOnHealthy(failures, current_status) ==
    IF current_status = UNHEALTHY THEN failures + 1
    ELSE IF current_status = HEALTHY THEN 0
    ELSE failures

NextFailures(failures, current_status) ==
    IF current_status = UNHEALTHY THEN failures + 1 ELSE 0

\* variant: the Critical alert is sent when the count reaches the threshold
\* and not again
FailureAlerts_Once(failures, current_status, t) ==
    IF current_status = UNHEALTHY
          /\ NextFailures(failures, current_status) = max_failures
    THEN <<Alert(<<"Service Continuously Unhealthy">>, CRITICAL,
                 DefaultSource, t)>>
    ELSE << >>

\* variant: the Critical alert waits for the count to pass the threshold
FailureAlerts_Strict(failures, current_status, t) ==
    IF current_status = UNHEALTHY
          /\ NextFailures(failures, current_status) > max_failures
    THEN <<Alert(<<"Service Continuously Unhealthy">>, CRITICAL,
                 DefaultSource, t)>>
    ELSE << >>

FailureAlerts(failures, current_status, t) ==
    IF current_status = UNHEALTHY
          /\ NextFailures(failures, current_status) >= max_failures
    THEN <<Alert(<<"Service Continuously Unhealthy">>, CRITICAL,
                 DefaultSource, t)>>
    ELSE << >>

\* variant: every component that is not Healthy gets an alert
RECURSIVE ComponentAlerts_NotHealthy(_, _)
ComponentAlerts_NotHealthy(components, t) ==
    IF components = << >>
    THEN << >>
    ELSE LET c == Head(components)
             rest == ComponentAlerts_NotHealthy(Tail(components), t)
         IN  IF c.status # HEALTHY
             THEN <<Alert(ComponentTitle(c.name), WARNING, DefaultSource, t)>>
                  \o rest
             ELSE rest

RECURSIVE ComponentAlerts(_, _)
ComponentAlerts(components, t) ==
    IF components = << >>
    THEN << >>
    ELSE LET c == Head(components)
             rest == ComponentAlerts(Tail(components), t)
         IN  IF c.status = UNHEALTHY
             THEN <<Alert(ComponentTitle(c.name), WARNING, DefaultSource, t)>>
                  \o rest
             ELSE rest

MonitorAlerts(last, failures, h, t) ==
    TransitionAlerts(last, h.status, t)
    \o FailureAlerts(failures, h.status, t)
    \o ComponentAlerts(h.components, t)

\* check_and_alert in the four parts its awaits lie between: the transition
\* block, the failure counter, the component loop and the final assignment
CheckPcs == <<"start", "failures", "components", "write", "done">>

\* the alerts part k sends, for the tracker tr = [last, failures] as the
\* part reads it
PhaseAlerts(k, tr, h, t) ==
    CASE k = 1 -> TransitionAlerts(tr.last, h.status, t)
      [] k = 2 -> FailureAlerts(tr.failures, h.status, t)
      [] k = 3 -> ComponentAlerts(h.components, t)
      [] k = 4 -> << >>

\* the tracker after part k
PhaseTracker(k, tr, h, cs) ==
    CASE k = 1 -> tr
      [] k = 2 -> [tr EXCEPT !.failures = NextFailures(@, h.status)]
      [] k = 3 -> tr
      [] k = 4 -> [tr EXCEPT !.last = NextLastStatus(@, h.status, cs)]

\* the send_alert calls of one handler, one after the other
RECURSIVE SendAll(_, _, _, _, _)
SendAll(st, cfg, alerts, outcome, t) ==
    IF alerts = << >>
    THEN [history |-> st.history, cooldown |-> st.cooldown, calls |-> << >>]
    ELSE LET r == send_alert(st, cfg, Head(alerts), outcome, t)
             rest == SendAll([history |-> r.history, cooldown |-> r.cooldown],
                             cfg, Tail(alerts), outcome, t)
         IN  [history |-> rest.history, cooldown |-> rest.cooldown,
              calls |-> <<r.call>> \o rest.calls]

----------------------------------------------------------------------------
(* Inputs *)

PercentSamples == {80, 81, 90, 91}

\* psutil is missing or its call raises
ReadFails == -1

EnvValues(f) ==
    CASE f = "import_analyzer" -> {"ok", "raise"}
      [] f = "is_healthy" -> BOOLEAN
      [] f = "test_result" -> {"truthy", "falsy", "raise"}
      [] f = "memory" -> PercentSamples \cup {ReadFails}
      [] f = "disk" -> PercentSamples \cup {ReadFails}
      [] f = "dependencies" -> {"ok", "missing", "raise"}

EnvFields ==
    {"import_analyzer", "is_healthy", "test_result", "memory", "disk",
     "dependencies"}

EnvSpace ==
    [import_analyzer : EnvValues("import_analyzer"),
     is_healthy : EnvValues("is_healthy"),
     test_result : EnvValues("test_result"),
     memory : EnvValues("memory"),
     disk : EnvValues("disk"),
     dependencies : EnvValues("dependencies")]

InitialEnv ==
    [import_analyzer |-> "ok", is_healthy |-> TRUE, test_result |-> "truthy",
     memory |-> 80, disk |-> 80, dependencies |-> "ok"]

\* no OverallHealth computed yet
NoHealth == [status |-> None, components |-> << >>]

\* the systems the tracker is shown: the model and the memory vary
MonitorEnvs ==
    {e \in EnvSpace : /\ e.import_analyzer = "ok"
                      /\ e.memory \in {80, 91}
                      /\ e.disk = 80
                      /\ e.dependencies = "ok"}

\* an OverallHealth in which the first two probes handed gather something
\* that is no ComponentHealth, as check_all's loop builds it
TwoProbesFailed ==
    LET components == CollectComponents(<<NoComponent, NoComponent,
                                          _check_disk(InitialEnv),
                                          _check_dependencies(InitialEnv)>>)
    IN  [status |-> overall_status(components), components |-> components]

\* the documents the tracker is shown over a long outage: all well, the
\* memory exhausted, two probes failed
CycleHealths ==
    {check_all(InitialEnv), check_all([InitialEnv EXCEPT !.memory = 91]),
     TwoProbesFailed}

\* Slack is the configured channel
SlackSettings == [ALERT_EMAIL |-> FALSE, ALERT_SLACK_WEBHOOK |-> TRUE]

\* the OverallHealth values check_all returns for them
HealthResults == {check_all(e) : e \in MonitorEnvs}

\* check_and_alert from part k on, up to an await that is suspended or to
\* its end: the states afterwards, the part to go on with and the calls made
RECURSIVE RunPhases(_, _, _, _, _, _, _, _)
RunPhases(k, st, tr, h, cfg, outcome, t, cs) ==
    IF k > 4
    THEN [st |-> st, tr |-> tr, k |-> k, calls |-> cs]
    ELSE LET r == SendAll(st, cfg, PhaseAlerts(k, tr, h, t), outcome, t)
             st2 == [history |-> r.history, cooldown |-> r.cooldown]
             cs2 == cs \o r.calls
             tr2 == PhaseTracker(k, tr, h, cs2)
             yielded == \E i \in DOMAIN r.calls :
                           \E c \in r.calls[i].attempted : Suspends(c)
         IN  IF yielded
             THEN [st |-> st2, tr |-> tr2, k |-> k + 1, calls |-> cs2]
             ELSE RunPhases(k + 1, st2, tr2, h, cfg, outcome, t, cs2)

\* the two coroutines that run at a time on the event loop
TaskIds == {1, 2}

\* the OverallHealth values shown to concurrent check_and_alert calls
LoopHealths ==
    {check_all(e) : e \in {x \in MonitorEnvs : /\ x.is_healthy
                                                /\ x.test_result = "truthy"}}

\* the alert of the concurrent send_alert calls
LoopAlert(t) == Alert(<<"T">>, WARNING, <<"A">>, t)

NoTracker == [last |-> None, failures |-> 0]

\* send_alert from the place pc on, up to an await that is suspended or to
\* its end
SendStep(task, st, cfg, outcome, t) ==
    LET key == alert_key(task.alert)
    IN  IF task.pc = "start"
        THEN IF _should_send_alert(st.cooldown, key, t) /\ SendYields(cfg)
             THEN [st |-> [history |-> AppendHistory(st.history, task.alert),
                           cooldown |-> st.cooldown],
                   task |-> [task EXCEPT !.pc = "channels", !.passed = TRUE],
                   calls |-> << >>]
             ELSE LET r == send_alert(st, cfg, task.alert, outcome, t)
                  IN  [st |-> [history |-> r.history, cooldown |-> r.cooldown],
                       task |-> [task EXCEPT
                                   !.pc = "done",
                                   !.passed = _should_send_alert(st.cooldown,
                                                                 key, t),
                                   !.delivered = r.call.delivered],
                       calls |-> <<r.call>>]
        ELSE LET delivered == DeliveredChannels(cfg, outcome)
                 success == delivered # {}
             IN  [st |-> [history |-> st.history,
                          cooldown |-> IF success
                                       THEN SetCooldown(st.cooldown, key, t)
                                       ELSE st.cooldown],
                  task |-> [task EXCEPT !.pc = "done",
                                        !.delivered = delivered],
                  calls |-> <<[alert |-> task.alert, ret |-> success,
                               attempted |-> ConfiguredChannels(cfg),
                               delivered |-> delivered]>>]

\* Settings as loaded without ALERT_EMAIL and ALERT_SLACK_WEBHOOK set
DefaultSettings == [ALERT_EMAIL |-> FALSE, ALERT_SLACK_WEBHOOK |-> FALSE]

Outcomes == [Channels -> BOOLEAN]

SettingsSpace == [ALERT_EMAIL : BOOLEAN, ALERT_SLACK_WEBHOOK : BOOLEAN]

\* sources and titles of the alerts sent directly; "A_B" + "_" + "T" and
\* "A" + "_" + "B_T" are the same string
DirectSources == {<<"A">>, <<"A", "_", "B">>}
DirectTitles == {<<"T">>, <<"B", "_", "T">>}

DirectAlerts(t) ==
    {Alert(ti, lv, s, t) : ti \in DirectTitles, lv \in {WARNING}, s \in DirectSources}

----------------------------------------------------------------------------
(* app/sentiment.py: SentimentAnalyzer *)

\* one item of the classifier's output for a text
Item(label, score) == [label |-> label, score |-> score]

\* scores = {item['label']: item['score'] for item in result}: the dictionary
\* as the sequence of its items in insertion order; a label that comes again
\* keeps its place and takes the later score
RECURSIVE ScoresOf(_, _)
ScoresOf(result, scores) ==
    IF result = << >>
    THEN scores
    ELSE LET item == Head(result)
             at == {i \in DOMAIN scores : scores[i].label = item.label}
         IN  ScoresOf(Tail(result),
                      IF at = {}
                      THEN Append(scores, item)
                      ELSE [i \in DOMAIN scores |->
                               IF i \in at THEN item ELSE scores[i]])

Keys(scores) == {scores[i].label : i \in DOMAIN scores}

\* scores.get(label, default)
Get(scores, label, default) ==
    IF label \in Keys(scores)
    THEN LET i == CHOOSE k \in DOMAIN scores : scores[k].label = label
         IN  scores[i].score
    ELSE default

\* label_mapping.get(label, label)
label_mapping(label) ==
    CASE label = "LABEL_0" -> "NEGATIVE"
      [] label = "LABEL_1" -> "NEUTRAL"
      [] label = "LABEL_2" -> "POSITIVE"
      [] label = "NEGATIVE" -> "NEGATIVE"
      [] label = "POSITIVE" -> "POSITIVE"
      [] label = "negative" -> "NEGATIVE"
      [] label = "positive" -> "POSITIVE"
      [] label = "neutral" -> "NEUTRAL"
      [] OTHER -> label

\* max(scores.keys(), key=lambda k: scores[k]): the first key, in the order
\* of the dictionary, that no key exceeds
best_label(scores) ==
    LET i == CHOOSE k \in DOMAIN scores :
                /\ \A j \in DOMAIN scores : scores[j].score <= scores[k].score
                /\ \A j \in 1..(k - 1) : scores[j].score < scores[k].score
    IN  scores[i].label

\* variant: equal scores count for positive
CollapseNeutral_Inclusive(scores) ==
    LET pos_score == Get(scores, "LABEL_2",
                         Get(scores, "POSITIVE", Get(scores, "positive", 0)))
        neg_score == Get(scores, "LABEL_0",
                         Get(scores, "NEGATIVE", Get(scores, "negative", 0)))
    IN  IF pos_score >= neg_score
        THEN <<"POSITIVE", pos_score>>
        ELSE <<"NEGATIVE", neg_score>>

\* the branch taken when the best label is the neutral one
CollapseNeutral(scores) ==
    LET pos_score == Get(scores, "LABEL_2",
                         Get(scores, "POSITIVE", Get(scores, "positive", 0)))
        neg_score == Get(scores, "LABEL_0",
                         Get(scores, "NEGATIVE", Get(scores, "negative", 0)))
    IN  IF pos_score > neg_score
        THEN <<"POSITIVE", pos_score>>
        ELSE <<"NEGATIVE", neg_score>>

\* _postprocess_result(result): (sentiment, best_score)
_postprocess_result(result) ==
    LET scores == ScoresOf(result, << >>)
        best == best_label(scores)
        best_score == Get(scores, best, 0)
        sentiment == label_mapping(best)
    IN  IF /\ "NEUTRAL" \in {label_mapping(k) : k \in Keys(scores)}
           /\ sentiment = "NEUTRAL"
        THEN CollapseNeutral(scores)
        ELSE <<sentiment, best_score>>

\* the label sets classifiers use, as <<negative, neutral, positive>>
LabelFamilies ==
    {<<"LABEL_0", "LABEL_1", "LABEL_2">>,
     <<"negative", "neutral", "positive">>,
     <<"NEGATIVE", "NEUTRAL", "POSITIVE">>}

\* scores in hundredths
ScoreSamples == {10, 30, 60}

\* the orders in which the three items can come
Orders == {o \in [1..3 -> 1..3] : \A i, j \in 1..3 : i # j => o[i] # o[j]}

\* the outputs of a three-way classifier for one text
ThreeWayResults ==
    {[i \in 1..3 |-> Item(f[o[i]], s[o[i]])] :
        f \in LabelFamilies, s \in [1..3 -> ScoreSamples], o \in Orders}

\* the outputs of a two-way classifier
TwoWayResults ==
    {<<Item("NEGATIVE", a), Item("POSITIVE", b)>> : a, b \in ScoreSamples}

BATCH_SIZE_LIMIT == 10

\* the texts shown to the analyzer: one the classifier finds positive, one
\* it finds negative, one on which it raises
Texts == {"good", "poor", "bad"}

\* (sentiment, confidence in percent, processing time in milliseconds)
FailedItem == <<"NEGATIVE", 0, 0>>

\* analyze_single on a loaded model
analyze_single(text) ==
    CASE text = "good" -> [raised |-> FALSE, value |-> <<"POSITIVE", 98, 1>>]
      [] text = "poor" -> [raised |-> FALSE, value |-> <<"NEGATIVE", 91, 1>>]
      [] text = "bad" -> [raised |-> TRUE, value |-> FailedItem]

\* variant: the first item that fails ends the loop
RECURSIVE BatchLoop_Aborts(_)
BatchLoop_Aborts(texts) ==
    IF texts = << >>
    THEN << >>
    ELSE LET r == analyze_single(Head(texts))
         IN  IF r.raised
             THEN << >>
             ELSE <<r.value>> \o BatchLoop_Aborts(Tail(texts))

\* the loop of analyze_batch over the texts
RECURSIVE BatchLoop(_)
BatchLoop(texts) ==
    IF texts = << >>
    THEN << >>
    ELSE LET r == analyze_single(Head(texts))
         IN  <<IF r.raised THEN FailedItem ELSE r.value>>
             \o BatchLoop(Tail(texts))

\* analyze_batch: the exception it raises, if any, and the list it returns
analyze_batch(model_loaded, texts) ==
    IF ~model_loaded
    THEN [raised |-> "RuntimeError", value |-> << >>]
    ELSE IF Len(texts) > BATCH_SIZE_LIMIT
    THEN [raised |-> "ValueError", value |-> << >>]
    ELSE [raised |-> None, value |-> BatchLoop(texts)]

RECURSIVE SeqsUpTo(_, _)
SeqsUpTo(S, n) ==
    IF n = 0
    THEN {<< >>}
    ELSE LET shorter == SeqsUpTo(S, n - 1)
         IN  shorter \cup {Append(s, x) : s \in shorter, x \in S}

\* the batches passed to analyze_batch: all short ones, and those of one
\* text repeated up to one beyond the limit
Batches ==
    SeqsUpTo(Texts, MaxBatch)
    \cup {[i \in 1..n |-> t] : n \in 1..(BATCH_SIZE_LIMIT + 1), t \in Texts}

----------------------------------------------------------------------------
(* app/main.py: the /health endpoint *)

NoDocument == [status |-> None, components |-> << >>, uptime |-> 0,
               metrics |-> {}]

\* variant: an Unhealthy service answers 503
health_check_FailsOnUnhealthy(r) ==
    IF r.raised \/ r.value.status = UNHEALTHY
    THEN [status_code |-> 503, detail |-> "Health check failed",
          body |-> NoDocument]
    ELSE [status_code |-> 200, detail |-> None, body |-> r.value]

\* the answer of GET /health to the outcome r of check_all
health_check(r) ==
    IF r.raised
    THEN [status_code |-> 503, detail |-> "Health check failed",
          body |-> NoDocument]
    ELSE [status_code |-> 200, detail |-> None, body |-> r.value]

\* the systems shown to the endpoint: the trial inference and the memory vary
EndpointEnvs ==
    {e \in MonitorEnvs : e.is_healthy /\ e.test_result # "raise"}

----------------------------------------------------------------------------
(* app/main.py: the /analyze and /analyze/batch endpoints *)

\* the analyzer as a request meets it
Analyzers == [model_loaded : BOOLEAN, classifier : BOOLEAN]

\* SentimentAnalyzer.is_healthy
is_healthy(a) == a.model_loaded /\ a.classifier

\* an HTTPException as the handlers raise it
HTTPException(status_code, detail) ==
    [status_code |-> status_code, detail |-> detail, body |-> << >>]

\* POST /analyze: the HTTPException raised in the try block is raised again,
\* every other exception is answered with 500
analyze_sentiment(a, text) ==
    IF ~is_healthy(a)
    THEN HTTPException(503, "Sentiment analysis service unavailable")
    ELSE LET r == analyze_single(text)
         IN  IF r.raised
             THEN HTTPException(500, "Sentiment analysis failed")
             ELSE [status_code |-> 200, detail |-> None,
                   body |-> <<r.value>>]

\* POST /analyze/batch: the one handler `except Exception` takes the
\* HTTPException raised in the try block as well
analyze_batch_sentiment(a, texts) ==
    LET inner == IF ~is_healthy(a)
                 THEN [raised |-> "HTTPException", value |-> << >>]
                 ELSE analyze_batch(a.model_loaded, texts)
    IN  IF inner.raised # None
        THEN HTTPException(500, "Batch sentiment analysis failed")
        ELSE [status_code |-> 200, detail |-> None, body |-> inner.value]

\* the bodies BatchSentimentRequest lets through: 1 to 10 texts
ValidBatches == {b \in Batches : Len(b) >= 1 /\ Len(b) <= 10}

----------------------------------------------------------------------------
(* Actions *)

InitCommon ==
    /\ now = 0
    /\ settings \in SettingsSpace
    /\ alert_history = << >>
    /\ alert_cooldown = << >>
    /\ last_health_status = None
    /\ consecutive_failures = 0
    /\ health_result = NoHealth
    /\ env = InitialEnv
    /\ op = "init"
    /\ calls = << >>
    /\ tasks = << >>
    /\ health_checker = HealthChecker(0)

\* the clock advances between two operations
Tick ==
    /\ \E d \in TickSteps :
          /\ now + d <= MaxTime
          /\ now' = now + d
    /\ op' = "tick"
    /\ calls' = << >>
    /\ UNCHANGED <<tasks, health_checker>>
    /\ UNCHANGED <<settings, alert_history, alert_cooldown, last_health_status,
                   consecutive_failures, env, health_result>>

\* await alert_manager.send_alert(alert), the alert created at the call and
\* the channels behaving as outcome says
SendAlertWith(alert, outcome) ==
    /\ alert.timestamp = now
    /\ LET r == send_alert([history |-> alert_history,
                            cooldown |-> alert_cooldown],
                           settings, alert, outcome, now)
       IN  /\ Len(r.history) <= MaxHistory
           /\ alert_history' = r.history
           /\ alert_cooldown' = r.cooldown
           /\ calls' = <<r.call>>
    /\ op' = "send_alert"
    /\ UNCHANGED <<tasks, health_checker>>
    /\ UNCHANGED <<now, settings, last_health_status, consecutive_failures,
                   env, health_result>>

SendAlert ==
    \E alert \in DirectAlerts(now), outcome \in Outcomes :
        /\ \A c \in Channels \ ConfiguredChannels(settings) : outcome[c]
        /\ SendAlertWith(alert, outcome)

\* the system the probes look at changes in one respect
EnvChange ==
    /\ \E f \in EnvFields :
          \E v \in EnvValues(f) \ {env[f]} :
              env' = [env EXCEPT ![f] = v]
    /\ op' = "env"
    /\ calls' = << >>
    /\ UNCHANGED <<tasks, health_checker>>
    /\ UNCHANGED <<now, settings, alert_history, alert_cooldown,
                   last_health_status, consecutive_failures, health_result>>

\* health_result = await health_checker.check_all()
CheckAll ==
    /\ health_result' = check_all(env)
    /\ op' = "check_all"
    /\ calls' = << >>
    /\ UNCHANGED <<tasks, health_checker>>
    /\ UNCHANGED <<now, settings, alert_history, alert_cooldown,
                   last_health_status, consecutive_failures, env>>

\* await health_monitor.check_and_alert(h), the channels behaving as
\* outcome says during the call
CheckAndAlertWith(h, outcome) ==
    /\ h.status = UNHEALTHY => consecutive_failures < MaxFailures
    /\ LET r == SendAll([history |-> alert_history,
                         cooldown |-> alert_cooldown], settings,
                        MonitorAlerts(last_health_status,
                                      consecutive_failures, h, now),
                        outcome, now)
       IN  /\ Len(r.history) <= MaxHistory
           /\ alert_history' = r.history
           /\ alert_cooldown' = r.cooldown
           /\ calls' = r.calls
           /\ last_health_status' =
                 NextLastStatus(last_health_status, h.status, r.calls)
    /\ consecutive_failures' = NextFailures(consecutive_failures, h.status)
    /\ health_result' = h
    /\ op' = "check_and_alert"
    /\ UNCHANGED <<tasks, health_checker>>
    /\ UNCHANGED <<now, settings, env>>

\* an outcome says something of the configured channels only
CheckAndAlert ==
    \E h \in HealthResults, outcome \in Outcomes :
        /\ \A c \in Channels \ ConfiguredChannels(settings) : outcome[c]
        /\ CheckAndAlertWith(h, outcome)

\* one alert a minute is sent: the clock advances, the alert is created and
\* passed to send_alert
HistorySend ==
    /\ now < MaxSends
    /\ now' = now + 1
    /\ \E outcome \in Outcomes :
          LET alert == Alert(<<"T">>, WARNING, DefaultSource, now + 1)
              r == send_alert([history |-> alert_history,
                               cooldown |-> alert_cooldown],
                              settings, alert, outcome, now + 1)
          IN  /\ alert_history' = r.history
              /\ alert_cooldown' = r.cooldown
              /\ calls' = <<r.call>>
    /\ op' = "send_alert"
    /\ UNCHANGED <<tasks, health_checker>>
    /\ UNCHANGED <<settings, last_health_status, consecutive_failures, env,
                   health_result>>

\* check_all creates the probe coroutines and awaits gather; hung are the
\* probes whose blocking call never returns, order lists the probes as they
\* return
CheckAllStart ==
    /\ \A k \in DOMAIN tasks : tasks[k].pc = "returned"
    /\ \E hung \in SUBSET DOMAIN checks :
          tasks' = <<[pc |-> "gather", hung |-> hung, order |-> << >>,
                      results |-> [i \in DOMAIN checks |-> Pending]]>>
    /\ op' = "check_all_start"
    /\ UNCHANGED health_checker
    /\ calls' = << >>
    /\ UNCHANGED <<now, settings, alert_history, alert_cooldown,
                   last_health_status, consecutive_failures, env,
                   health_result>>

\* the i-th probe returns
ProbeCompletesAt(i) ==
    /\ tasks # << >>
    /\ tasks[1].pc = "gather"
    /\ i \notin tasks[1].hung
    /\ i \notin {tasks[1].order[k] : k \in DOMAIN tasks[1].order}
    /\ tasks' = <<[tasks[1] EXCEPT
                     !.results = StoreResult(@, i, RunCheck(checks[i], env)),
                     !.order = Append(@, i)]>>
    /\ op' = "probe"
    /\ UNCHANGED health_checker
    /\ UNCHANGED <<now, settings, alert_history, alert_cooldown,
                   last_health_status, consecutive_failures, env,
                   health_result, calls>>

ProbeCompletes == \E i \in DOMAIN checks : ProbeCompletesAt(i)

\* gather returns once every probe has returned, and check_all goes on to
\* the loop over the results and returns the OverallHealth
GatherReturns ==
    /\ tasks # << >>
    /\ tasks[1].pc = "gather"
    /\ Len(tasks[1].order) = Len(checks)
    /\ LET components == CollectComponents(tasks[1].results)
       IN  health_result' = [status |-> overall_status(components),
                             components |-> components]
    /\ tasks' = <<[tasks[1] EXCEPT !.pc = "returned"]>>
    /\ op' = "check_all"
    /\ UNCHANGED health_checker
    /\ UNCHANGED <<now, settings, alert_history, alert_cooldown,
                   last_health_status, consecutive_failures, env, calls>>

\* a coroutine alert_manager.send_alert(alert) is handed to the event loop
SpawnSend ==
    /\ Len(tasks) < Cardinality(TaskIds)
    /\ \A i \in DOMAIN tasks : tasks[i].kind = "send"
    /\ tasks' = Append(tasks, [kind |-> "send", alert |-> LoopAlert(now),
                               pc |-> "start", passed |-> FALSE,
                               delivered |-> {}])
    /\ op' = "spawn"
    /\ UNCHANGED health_checker
    /\ calls' = << >>
    /\ UNCHANGED <<now, settings, alert_history, alert_cooldown,
                   last_health_status, consecutive_failures, env,
                   health_result>>

\* a coroutine health_monitor.check_and_alert(h) is handed to the event loop
SpawnCheck ==
    /\ Len(tasks) < Cardinality(TaskIds)
    /\ \A i \in DOMAIN tasks : tasks[i].kind = "check"
    /\ \E h \in LoopHealths :
          tasks' = Append(tasks, [kind |-> "check", h |-> h, pc |-> "start",
                                  pre |-> NoTracker, post |-> NoTracker])
    /\ op' = "spawn"
    /\ UNCHANGED health_checker
    /\ calls' = << >>
    /\ UNCHANGED <<now, settings, alert_history, alert_cooldown,
                   last_health_status, consecutive_failures, env,
                   health_result>>

\* the event loop runs the send_alert coroutine i up to its next suspension
RunSendTask(i, outcome) ==
    /\ tasks[i].kind = "send"
    /\ tasks[i].pc # "done"
    /\ LET r == SendStep(tasks[i], [history |-> alert_history,
                                    cooldown |-> alert_cooldown],
                         settings, outcome, now)
       IN  /\ Len(r.st.history) <= MaxHistory
           /\ alert_history' = r.st.history
           /\ alert_cooldown' = r.st.cooldown
           /\ tasks' = [tasks EXCEPT ![i] = r.task]
           /\ calls' = r.calls
    /\ op' = "run"
    /\ UNCHANGED health_checker
    /\ UNCHANGED <<now, settings, last_health_status, consecutive_failures,
                   env, health_result>>

\* the event loop runs the check_and_alert coroutine i up to its next
\* suspension; pre is the tracker as the call found it, post the tracker as
\* it left it
RunCheckTask(i, outcome) ==
    /\ tasks[i].kind = "check"
    /\ tasks[i].pc # "done"
    /\ tasks[i].h.status = UNHEALTHY => consecutive_failures < MaxFailures
    /\ LET k == CHOOSE n \in DOMAIN CheckPcs : CheckPcs[n] = tasks[i].pc
           tr == [last |-> last_health_status,
                  failures |-> consecutive_failures]
           r == RunPhases(k, [history |-> alert_history,
                              cooldown |-> alert_cooldown],
                          tr, tasks[i].h, settings, outcome, now, << >>)
       IN  /\ Len(r.st.history) <= MaxHistory
           /\ alert_history' = r.st.history
           /\ alert_cooldown' = r.st.cooldown
           /\ last_health_status' = r.tr.last
           /\ consecutive_failures' = r.tr.failures
           /\ calls' = r.calls
           /\ tasks' = [tasks EXCEPT ![i] =
                           [@ EXCEPT !.pc = CheckPcs[r.k],
                                     !.pre = IF k = 1 THEN tr ELSE @,
                                     !.post = IF r.k = Len(CheckPcs)
                                              THEN r.tr
                                              ELSE @]]
    /\ op' = "run"
    /\ UNCHANGED health_checker
    /\ UNCHANGED <<now, settings, env, health_result>>

\* the event loop picks any coroutine that can go on
RunTask ==
    \E i \in DOMAIN tasks, outcome \in Outcomes :
        /\ \A c \in Channels \ ConfiguredChannels(settings) : outcome[c]
        /\ RunSendTask(i, outcome) \/ RunCheckTask(i, outcome)

\* all coroutines have returned and are forgotten
BatchReturns ==
    /\ tasks # << >>
    /\ \A i \in DOMAIN tasks : tasks[i].pc = "done"
    /\ tasks' = << >>
    /\ op' = "batch"
    /\ UNCHANGED health_checker
    /\ calls' = << >>
    /\ UNCHANGED <<now, settings, alert_history, alert_cooldown,
                   last_health_status, consecutive_failures, env,
                   health_result>>

\* half an hour or an hour passes
RecentTick ==
    /\ \E d \in {30, 60} :
          /\ now + d <= MaxClock
          /\ now' = now + d
    /\ op' = "tick"
    /\ calls' = << >>
    /\ UNCHANGED <<tasks, health_checker>>
    /\ UNCHANGED <<settings, alert_history, alert_cooldown, last_health_status,
                   consecutive_failures, env, health_result>>

\* an alert created now is passed to send_alert
RecentSend ==
    /\ \E title \in DirectTitles, outcome \in Outcomes :
          LET r == send_alert([history |-> alert_history,
                               cooldown |-> alert_cooldown], settings,
                              Alert(title, WARNING, DefaultSource, now),
                              outcome, now)
          IN  /\ \A c \in Channels \ ConfiguredChannels(settings) : outcome[c]
              /\ Len(r.history) <= MaxHistory
              /\ alert_history' = r.history
              /\ alert_cooldown' = r.cooldown
              /\ calls' = <<r.call>>
    /\ op' = "send_alert"
    /\ UNCHANGED <<tasks, health_checker>>
    /\ UNCHANGED <<now, settings, last_health_status, consecutive_failures,
                   env, health_result>>

\* alert_manager.get_recent_alerts(hours); the call and what it returned
\* are kept in calls
GetRecentAlerts ==
    /\ \E hours \in {0, 1, 2} :
          calls' = <<[hours |-> hours,
                      ret |-> get_recent_alerts(alert_history, hours, now)]>>
    /\ op' = "get_recent_alerts"
    /\ UNCHANGED <<tasks, health_checker>>
    /\ UNCHANGED <<now, settings, alert_history, alert_cooldown,
                   last_health_status, consecutive_failures, env,
                   health_result>>

\* the system the probes look at changes
EndpointEnv ==
    /\ \E e \in EndpointEnvs \ {env} : env' = e
    /\ op' = "env"
    /\ calls' = << >>
    /\ UNCHANGED <<tasks, health_checker>>
    /\ UNCHANGED <<now, settings, alert_history, alert_cooldown,
                   last_health_status, consecutive_failures, health_result>>

\* time passes; the record of the last request is kept
EndpointTick ==
    /\ \E d \in TickSteps :
          /\ now + d <= MaxTime
          /\ now' = now + d
    /\ op' = "tick"
    /\ UNCHANGED <<tasks, health_checker>>
    /\ UNCHANGED <<settings, alert_history, alert_cooldown, last_health_status,
                   consecutive_failures, env, health_result, calls>>

\* GET /health; calls keeps the request: what check_all met, whether a
\* request came before it with the system unchanged, and the answer
HealthEndpoint ==
    /\ \E provider_ok \in BOOLEAN, fault \in BOOLEAN :
          LET r == check_all_full(health_checker, env, provider_ok, fault, now)
          IN  /\ health_result' = IF r.raised THEN health_result ELSE r.value
              /\ calls' = <<[request |-> "/health",
                             provider_ok |-> provider_ok, fault |-> fault,
                             raised |-> r.raised, again |-> calls # << >>,
                             response |-> health_check(r)]>>
    /\ health_checker' = CheckerAfter(health_checker, now)
    /\ op' = "health_check"
    /\ UNCHANGED tasks
    /\ UNCHANGED <<now, settings, alert_history, alert_cooldown,
                   last_health_status, consecutive_failures, env>>

\* analyzer.analyze_batch(texts) for the batch named in calls
AnalyzeBatch ==
    /\ op = "init"
    /\ LET r == analyze_batch(calls[1].model_loaded, calls[1].texts)
       IN  calls' = <<[calls[1] EXCEPT !.raised = r.raised, !.ret = r.value]>>
    /\ op' = "analyze_batch"
    /\ UNCHANGED <<tasks, health_checker>>
    /\ UNCHANGED <<now, settings, alert_history, alert_cooldown,
                   last_health_status, consecutive_failures, env,
                   health_result>>

\* await health_monitor.check_and_alert(h) in a monitoring cycle
ObserveCycleWith(h, outcome) ==
    /\ h.status = UNHEALTHY => consecutive_failures < MaxFailures + 1
    /\ LET r == SendAll([history |-> alert_history,
                         cooldown |-> alert_cooldown], settings,
                        MonitorAlerts(last_health_status,
                                      consecutive_failures, h, now),
                        outcome, now)
       IN  /\ Len(r.history) <= MaxHistory + 2
           /\ alert_history' = r.history
           /\ alert_cooldown' = r.cooldown
           /\ calls' = r.calls
           /\ last_health_status' =
                 NextLastStatus(last_health_status, h.status, r.calls)
    /\ consecutive_failures' = NextFailures(consecutive_failures, h.status)
    /\ health_result' = h
    /\ op' = "check_and_alert"
    /\ UNCHANGED <<tasks, health_checker>>
    /\ UNCHANGED <<now, settings, env>>

ObserveCycle ==
    \E h \in CycleHealths, outcome \in Outcomes :
        /\ \A c \in Channels \ ConfiguredChannels(settings) : outcome[c]
        /\ ObserveCycleWith(h, outcome)

\* sentiment, confidence = self._postprocess_result(result[0]) for the
\* output named in calls
Postprocess ==
    /\ op = "init"
    /\ calls' = <<[calls[1] EXCEPT !.ret = _postprocess_result(calls[1].result)]>>
    /\ op' = "_postprocess_result"
    /\ UNCHANGED <<tasks, health_checker>>
    /\ UNCHANGED <<now, settings, alert_history, alert_cooldown,
                   last_health_status, consecutive_failures, env,
                   health_result>>

\* POST /analyze with a text, the analyzer in state a
AnalyzeEndpoint ==
    /\ \E a \in Analyzers, text \in Texts :
          calls' = <<[request |-> "/analyze", analyzer |-> a,
                      texts |-> <<text>>,
                      response |-> analyze_sentiment(a, text)]>>
    /\ op' = "analyze_sentiment"
    /\ UNCHANGED <<tasks, health_checker>>
    /\ UNCHANGED <<now, settings, alert_history, alert_cooldown,
                   last_health_status, consecutive_failures, env,
                   health_result>>

\* POST /analyze/batch with a list of texts, the analyzer in state a
AnalyzeBatchEndpoint ==
    /\ \E a \in Analyzers, texts \in ValidBatches :
          calls' = <<[request |-> "/analyze/batch", analyzer |-> a,
                      texts |-> texts,
                      response |-> analyze_batch_sentiment(a, texts)]>>
    /\ op' = "analyze_batch_sentiment"
    /\ UNCHANGED <<tasks, health_checker>>
    /\ UNCHANGED <<now, settings, alert_history, alert_cooldown,
                   last_health_status, consecutive_failures, env,
                   health_result>>

InitDispatcher ==
    /\ InitCommon

NextDispatcher == Tick \/ SendAlert

SpecDispatcher == InitDispatcher /\ [][NextDispatcher]_vars

\* no channel is configured, so that no send is held back
InitHistory ==
    /\ InitCommon
    /\ settings = DefaultSettings

NextHistory == HistorySend

SpecHistory == InitHistory /\ [][NextHistory]_vars

\* the probes of one check_all at a time, returning in any order
InitProbes ==
    /\ now = 0
    /\ settings = DefaultSettings
    /\ alert_history = << >>
    /\ alert_cooldown = << >>
    /\ last_health_status = None
    /\ consecutive_failures = 0
    /\ health_result = NoHealth
    /\ env \in MonitorEnvs
    /\ op = "init"
    /\ calls = << >>
    /\ tasks = << >>
    /\ health_checker = HealthChecker(0)

NextProbes == CheckAllStart \/ ProbeCompletes \/ GatherReturns

SpecProbes == InitProbes /\ [][NextProbes]_vars

\* the event loop runs every coroutine that can go on
FairProbes ==
    /\ \A i \in DOMAIN checks : WF_vars(ProbeCompletesAt(i))
    /\ WF_vars(GatherReturns)

SpecProbesFair == SpecProbes /\ FairProbes

\* two send_alert or two check_and_alert coroutines at a time on one event
\* loop, at one instant, with the Slack webhook as the only channel
InitLoop ==
    /\ InitCommon
    /\ settings.ALERT_SLACK_WEBHOOK
    /\ ~settings.ALERT_EMAIL

NextLoop == SpawnSend \/ SpawnCheck \/ RunTask \/ BatchReturns

SpecLoop == InitLoop /\ [][NextLoop]_vars

\* alerts are recorded (no channel is configured) and the history is queried
InitRecent ==
    /\ InitCommon
    /\ settings = DefaultSettings

NextRecent == RecentTick \/ RecentSend \/ GetRecentAlerts

SpecRecent == InitRecent /\ [][NextRecent]_vars

\* requests to GET /health while the system changes and time passes
InitEndpoint == InitCommon

NextEndpoint == EndpointEnv \/ EndpointTick \/ HealthEndpoint

SpecEndpoint == InitEndpoint /\ [][NextEndpoint]_vars

\* a batch is about to be analyzed, the model loaded or not
InitBatch ==
    /\ now = 0
    /\ settings = DefaultSettings
    /\ alert_history = << >>
    /\ alert_cooldown = << >>
    /\ last_health_status = None
    /\ consecutive_failures = 0
    /\ health_result = NoHealth
    /\ env = InitialEnv
    /\ op = "init"
    /\ \E texts \in Batches, model_loaded \in BOOLEAN :
          calls = <<[texts |-> texts, model_loaded |-> model_loaded,
                     raised |-> None, ret |-> << >>]>>
    /\ tasks = << >>
    /\ health_checker = HealthChecker(0)

NextBatch == AnalyzeBatch

SpecBatch == InitBatch /\ [][NextBatch]_vars

InitAggregator ==
    /\ InitCommon
    /\ settings = DefaultSettings

NextAggregator == EnvChange \/ CheckAll

SpecAggregator == InitAggregator /\ [][NextAggregator]_vars

\* monitoring cycles over a long outage, alerts going to Slack
InitCycles ==
    /\ InitCommon
    /\ settings = SlackSettings

NextCycles == Tick \/ ObserveCycle

SpecCycles == InitCycles /\ [][NextCycles]_vars

\* the classifier has returned its output for a text
InitPostprocess ==
    /\ now = 0
    /\ settings = DefaultSettings
    /\ alert_history = << >>
    /\ alert_cooldown = << >>
    /\ last_health_status = None
    /\ consecutive_failures = 0
    /\ health_result = NoHealth
    /\ env = InitialEnv
    /\ op = "init"
    /\ \E result \in ThreeWayResults \cup TwoWayResults :
          calls = <<[result |-> result, ret |-> << >>]>>
    /\ tasks = << >>
    /\ health_checker = HealthChecker(0)

NextPostprocess == Postprocess

SpecPostprocess == InitPostprocess /\ [][NextPostprocess]_vars

\* requests to the two analysis endpoints
InitAnalyze ==
    /\ InitCommon
    /\ settings = DefaultSettings

NextAnalyze == AnalyzeEndpoint \/ AnalyzeBatchEndpoint

SpecAnalyze == InitAnalyze /\ [][NextAnalyze]_vars

InitMonitor ==
    /\ InitCommon

NextMonitor == Tick \/ CheckAndAlert

SpecMonitor == InitMonitor /\ [][NextMonitor]_vars

----------------------------------------------------------------------------
(* Vocabulary of the properties *)

\* the key was stamped by a delivered send
Stamped(key) == key \in DOMAIN alert_cooldown

\* minutes since the key was stamped
SinceStamp(key) == now - alert_cooldown[key]

\* the channels that are configured and do not fail under outcome
Delivering(outcome) ==
    {c \in Channels :
        /\ outcome[c]
        /\ \/ c = "email" /\ settings.ALERT_EMAIL
           \/ c = "slack" /\ settings.ALERT_SLACK_WEBHOOK}

\* the calls of the last operation whose alert has the title
CallsTitled(cs, title) == SelectSeq(cs, LAMBDA c : c.alert.title = title)

CallsLevelled(cs, level) == SelectSeq(cs, LAMBDA c : c.alert.level = level)

UnhealthyOf(components) ==
    SelectSeq(components, LAMBDA c : c.status = "unhealthy")

----------------------------------------------------------------------------
(* C1: the overall status returned by check_all is Unhealthy iff some
   component is Unhealthy, Degraded iff no component is Unhealthy and some
   component is Degraded, and Healthy otherwise. *)
C1_OverallIsWorst ==
    health_result # NoHealth =>
        LET comps == health_result.components
            anyU == \E i \in DOMAIN comps : comps[i].status = "unhealthy"
            anyD == \E i \in DOMAIN comps : comps[i].status = "degraded"
        IN  /\ health_result.status = "unhealthy" <=> anyU
            /\ health_result.status = "degraded" <=> (~anyU /\ anyD)
            /\ health_result.status = "healthy" <=> (~anyU /\ ~anyD)

C1_Witness ==
    /\ op = "check_all"
    /\ health_result.status = "degraded"
    /\ \E i \in DOMAIN health_result.components :
          health_result.components[i].status = "degraded"
    /\ \E i \in DOMAIN health_result.components :
          health_result.components[i].status = "healthy"

(* C2: with a delivering channel, a send of a key that was never stamped
   returns true and stamps the key; a send of the same key less than 15
   minutes after the stamp returns false and keeps the stamp; a send more
   than 15 minutes after the stamp returns true. *)
C2_Cooldown ==
    [][\A alert \in DirectAlerts(now), outcome \in Outcomes :
          (SendAlertWith(alert, outcome) /\ Delivering(outcome) # {}) =>
              LET key == alert.source \o <<"_">> \o alert.title
              IN  /\ ~Stamped(key) =>
                        /\ calls'[1].ret = TRUE
                        /\ key \in DOMAIN alert_cooldown'
                        /\ alert_cooldown'[key] = now
                  /\ (Stamped(key) /\ SinceStamp(key) < 15) =>
                        /\ calls'[1].ret = FALSE
                        /\ alert_cooldown'[key] = alert_cooldown[key]
                  /\ (Stamped(key) /\ SinceStamp(key) > 15) =>
                        calls'[1].ret = TRUE]_vars

\* the third send: the same key was delivered before, more than 15 minutes ago
C2_Witness ==
    /\ op = "send_alert"
    /\ calls[1].ret = TRUE
    /\ Len(alert_history) = 2
    /\ alert_history[1].source = alert_history[2].source
    /\ alert_history[1].title = alert_history[2].title
    /\ alert_history[2].timestamp - alert_history[1].timestamp > 15
    /\ alert_history[2].timestamp = now
    /\ settings.ALERT_EMAIL

(* C3: the Critical alert "Service Continuously Unhealthy" is emitted on an
   Unhealthy observation exactly when that observation is the one on which
   consecutive_failures reaches the threshold 3, and on no later Unhealthy
   observation of the run. *)
C3_EscalatesOnce ==
    [][(op' = "check_and_alert" /\ health_result'.status = "unhealthy") =>
              LET n == Len(CallsTitled(calls',
                                       <<"Service Continuously Unhealthy">>))
              IN  IF consecutive_failures' = 3 THEN n = 1 ELSE n = 0]_vars

(* C4: observing Healthy right after Unhealthy emits exactly one alert
   titled "Service Health Recovered", of level Info, and leaves
   consecutive_failures at 0. *)
C4_Recovery ==
    [][(/\ op' = "check_and_alert"
        /\ last_health_status = "unhealthy"
        /\ health_result'.status = "healthy") =>
              LET rec == CallsTitled(calls', <<"Service Health Recovered">>)
              IN  /\ Len(rec) = 1
                  /\ rec[1].alert.level = "info"
                  /\ Len(CallsLevelled(calls', "info")) = 1
                  /\ consecutive_failures' = 0]_vars

C4_Witness ==
    /\ op = "check_and_alert"
    /\ last_health_status = "healthy"
    /\ consecutive_failures = 0
    /\ Len(calls) = 1
    /\ calls[1].alert.title = <<"Service Health Recovered">>
    /\ calls[1].alert.level = "info"

(* C5, as claimed: on the first observation (last_status unset) no alert of
   any kind is emitted. *)
C5_FirstObservationSilent ==
    [][(op' = "check_and_alert" /\ last_health_status = None) =>
              calls' = << >>]_vars

(* C5, amended: on the first observation no overall-status alert is
   emitted; the alerts emitted are exactly the Warning alerts of the
   components observed Unhealthy. *)
C5_FirstObservationComponentsOnly ==
    [][(op' = "check_and_alert" /\ last_health_status = None) =>
              /\ \A i \in DOMAIN calls' :
                    /\ calls'[i].alert.level = "warning"
                    /\ calls'[i].alert.title \notin
                          {<<"Service Health Degraded">>,
                           <<"Service Health Recovered">>,
                           <<"Service Continuously Unhealthy">>}
              /\ Len(calls') = Len(UnhealthyOf(health_result'.components))]_vars

\* the state after a first observation that was Unhealthy: one failure
\* counted and nothing but component warnings emitted
C5_Witness ==
    /\ op = "check_and_alert"
    /\ last_health_status = "unhealthy"
    /\ consecutive_failures = 1
    /\ calls # << >>
    /\ \A i \in DOMAIN calls : calls[i].alert.level = "warning"

(* C6: an Unhealthy observation that follows a Healthy or a Degraded one
   emits exactly one alert titled "Service Health Degraded", of level Error;
   an Unhealthy observation that follows an Unhealthy one emits none. *)
C6_IntoUnhealthy ==
    [][(op' = "check_and_alert" /\ health_result'.status = "unhealthy") =>
              LET deg == CallsTitled(calls', <<"Service Health Degraded">>)
              IN  /\ last_health_status \in {"healthy", "degraded"} =>
                        /\ Len(deg) = 1
                        /\ deg[1].alert.level = "error"
                        /\ Len(CallsLevelled(calls', "error")) = 1
                  /\ last_health_status = "unhealthy" =>
                        /\ Len(deg) = 0
                        /\ Len(CallsLevelled(calls', "error")) = 0]_vars

\* Unhealthy was observed right after a Healthy or a Degraded observation
C6_Witness ==
    /\ op = "check_and_alert"
    /\ last_health_status = "unhealthy"
    /\ consecutive_failures = 1
    /\ calls # << >>
    /\ calls[1].alert.title = <<"Service Health Degraded">>
    /\ calls[1].alert.level = "error"

(* C7: the Warning alerts of an observation are, in order, one alert
   "Component <name> Unhealthy" per component whose status is Unhealthy,
   and none for the other components, whatever the previous status was. *)
C7_ComponentAlerts ==
    [][op' = "check_and_alert" =>
              LET warns == CallsLevelled(calls', "warning")
                  unh == UnhealthyOf(health_result'.components)
              IN  /\ Len(warns) = Len(unh)
                  /\ \A i \in DOMAIN warns :
                        /\ warns[i].alert.title =
                              <<"Component ", unh[i].name, " Unhealthy">>
                        /\ warns[i].alert.source = <<"SentimentSense">>]_vars

\* the overall status did not change (second Unhealthy in a row), two
\* components are Unhealthy and two are not
C7_Witness ==
    /\ op = "check_and_alert"
    /\ last_health_status = "unhealthy"
    /\ consecutive_failures = 2
    /\ Len(CallsLevelled(calls, "warning")) = 2
    /\ Len(UnhealthyOf(health_result.components)) = 2
    /\ Len(health_result.components) = 4

(* C8: when both channels are configured, exactly one of them fails and the
   send is not held back by the cooldown, the send returns true, both
   channels are attempted and the one that does not fail delivers. *)
C8_ChannelIsolation ==
    [][\A alert \in DirectAlerts(now), outcome \in Outcomes :
          (/\ SendAlertWith(alert, outcome)
           /\ settings.ALERT_EMAIL /\ settings.ALERT_SLACK_WEBHOOK
           /\ outcome["email"] # outcome["slack"]
           /\ LET key == alert.source \o <<"_">> \o alert.title
              IN  ~Stamped(key) \/ SinceStamp(key) > 15) =>
              /\ calls'[1].ret = TRUE
              /\ calls'[1].attempted = {"email", "slack"}
              /\ calls'[1].delivered = {c \in Channels : outcome[c]}]_vars

\* the channel attempted first failed and the second one delivered
C8_Witness ==
    /\ op = "send_alert"
    /\ calls[1].ret = TRUE
    /\ calls[1].attempted = {"email", "slack"}
    /\ calls[1].delivered = {"slack"}

(* C9: send returns true iff a configured channel delivered the alert: it
   returns false when the key was stamped less than 15 minutes ago, when
   every configured channel fails and when no channel is configured, and
   true when the key is not stamped, or was stamped more than 15 minutes
   ago, and a configured channel delivers. *)
C9_ReturnIffDelivered ==
    [][\A alert \in DirectAlerts(now), outcome \in Outcomes :
          SendAlertWith(alert, outcome) =>
              LET key == alert.source \o <<"_">> \o alert.title
                  c == calls'[1]
              IN  /\ c.ret <=> (c.delivered # {})
                  /\ c.delivered \subseteq Delivering(outcome)
                  /\ (Stamped(key) /\ SinceStamp(key) < 15) => ~c.ret
                  /\ Delivering(outcome) = {} => ~c.ret
                  /\ ((~Stamped(key) \/ SinceStamp(key) > 15)
                         /\ Delivering(outcome) # {}) =>
                        (c.ret /\ c.delivered = Delivering(outcome))]_vars

\* every configured channel was attempted and failed
C9_Witness ==
    /\ op = "send_alert"
    /\ calls[1].ret = FALSE
    /\ calls[1].attempted = {"email", "slack"}
    /\ calls[1].delivered = {}

(* C10: a send of a key stamped less than 15 minutes ago returns false,
   attempts no channel and leaves the history and the cooldown map as they
   were; the alerts a send delivers are never alerts of an earlier call. *)
C10_SuppressedIsDropped ==
    [][\A alert \in DirectAlerts(now), outcome \in Outcomes :
          SendAlertWith(alert, outcome) =>
              LET key == alert.source \o <<"_">> \o alert.title
              IN  /\ (Stamped(key) /\ SinceStamp(key) < 15) =>
                        /\ calls' = <<[alert |-> alert, ret |-> FALSE,
                                       attempted |-> {}, delivered |-> {}]>>
                        /\ alert_history' = alert_history
                        /\ alert_cooldown' = alert_cooldown
                  /\ \A i \in DOMAIN calls' :
                        calls'[i].delivered # {} => calls'[i].alert = alert]_vars

\* a send was suppressed although a channel is configured
C10_Witness ==
    /\ op = "send_alert"
    /\ calls[1].ret = FALSE
    /\ calls[1].attempted = {}
    /\ settings.ALERT_EMAIL
    /\ Stamped(calls[1].alert.source \o <<"_">> \o calls[1].alert.title)
    /\ SinceStamp(calls[1].alert.source \o <<"_">> \o calls[1].alert.title) < 15

(* C11: a send changes the cooldown map only when a channel delivered, and
   then only by stamping its own key with the current time; a send whose
   channels all fail returns false, leaves the map as it was, and the same
   key sent again at once is not held back (it reaches the channels again). *)
C11_StampOnlyOnDelivery ==
    [][\A alert \in DirectAlerts(now), outcome \in Outcomes :
          SendAlertWith(alert, outcome) =>
              LET key == alert.source \o <<"_">> \o alert.title
                  c == calls'[1]
              IN  /\ alert_cooldown' # alert_cooldown =>
                        /\ Delivering(outcome) # {}
                        /\ c.ret = TRUE
                        /\ alert_cooldown'[key] = now
                  /\ ((~Stamped(key) \/ SinceStamp(key) > 15)
                         /\ Delivering(outcome) = {}) =>
                        /\ c.ret = FALSE
                        /\ alert_cooldown' = alert_cooldown
                        /\ c.attempted =
                              {ch \in Channels :
                                  \/ ch = "email" /\ settings.ALERT_EMAIL
                                  \/ ch = "slack"
                                        /\ settings.ALERT_SLACK_WEBHOOK}]_vars

\* the same key was sent twice at the same minute, both sends reached the
\* channels (both are in the history) and the second one failed on every
\* channel, the key being unstamped
C11_Witness ==
    /\ op = "send_alert"
    /\ Len(alert_history) = 2
    /\ alert_history[1] = alert_history[2]
    /\ alert_history[2] = calls[1].alert
    /\ calls[1].ret = FALSE
    /\ calls[1].attempted # {}
    /\ calls[1].delivered = {}
    /\ alert_cooldown = << >>

(* C12: the history never holds more than 1000 alerts; after n sends that
   were not held back it holds the last min(n, 1000) of them in the order
   in which they were sent (the alert sent at minute t carries timestamp t),
   the n - 1000 oldest ones being gone. *)
C12_HistoryBound ==
    LET n == Len(alert_history)
    IN  /\ n <= 1000
        /\ n = IF now <= 1000 THEN now ELSE 1000
        /\ \A i \in 1..n : alert_history[i].timestamp = now - n + i

\* 1002 alerts were sent: the two oldest are gone
C12_Witness ==
    /\ now = 1002
    /\ Len(alert_history) = 1000
    /\ alert_history[1].timestamp = 3
    /\ alert_history[1000].timestamp = 1002
    /\ calls[1].alert.timestamp = 1002

(* C13: a probe whose result is no ComponentHealth (an exception handed back
   by gather, or no value) appears in the result of check_all as a component
   named "unknown" with status Unhealthy; check_all returns an overall
   status, the results of the other probes are present unchanged, and there
   are as many components as registered probes. *)
C13_FailedProbeIsUnknown ==
    op = "check_all" =>
        LET comps == health_result.components
            probe(i) == RunCheck(checks[i], env)
        IN  /\ health_result.status \in {"healthy", "degraded", "unhealthy"}
            /\ Len(comps) = 4
            /\ Len(comps) = Len(checks)
            /\ \A i \in 1..4 :
                  IF probe(i).status \in {"healthy", "degraded", "unhealthy"}
                  THEN comps[i] = probe(i)
                  ELSE comps[i] = [name |-> "unknown", status |-> "unhealthy"]

\* the model probe gives no ComponentHealth while the memory is Degraded
C13_Witness ==
    /\ op = "check_all"
    /\ env.import_analyzer = "ok" /\ env.is_healthy /\ env.test_result = "falsy"
    /\ env.memory = 81 /\ env.disk = 80 /\ env.dependencies = "ok"
    /\ health_result.status = "unhealthy"
    /\ health_result.components =
          <<[name |-> "unknown", status |-> "unhealthy"],
            [name |-> "memory", status |-> "degraded"],
            [name |-> "disk", status |-> "healthy"],
            [name |-> "dependencies", status |-> "healthy"]>>

(* C14: a check_all that has started returns, even when one of its probes
   never completes. *)
C14_CheckAllReturns ==
    (tasks # << >> /\ tasks[1].pc = "gather")
        ~> (tasks # << >> /\ tasks[1].pc = "returned")

(* C20: the components check_all returns are one per registered probe, in
   registration order (model, memory, disk, dependencies; "unknown" in the
   place of a probe that gave no ComponentHealth), in whatever order the
   probes returned. *)
C20_RegistrationOrder ==
    op = "check_all" =>
        LET comps == health_result.components
            registered == <<"model", "memory", "disk", "dependencies">>
        IN  /\ DOMAIN comps = 1..4
            /\ \A i \in 1..4 :
                  comps[i].name =
                      IF RunCheck(registered[i], env).name = registered[i]
                      THEN registered[i]
                      ELSE "unknown"

\* the probes returned in the reverse of the registration order
C20_Witness ==
    /\ op = "check_all"
    /\ tasks[1].pc = "returned"
    /\ tasks[1].order = <<4, 3, 2, 1>>
    /\ [i \in 1..4 |-> health_result.components[i].name]
          = <<"model", "memory", "disk", "dependencies">>
    /\ health_result.components[2].status = "unhealthy"

(* C17: when a check_and_alert call has returned, last_health_status is the
   overall status that was observed, whether the alerts of the call were
   delivered, suppressed or failed to deliver. *)
C17_LastStatusWritten ==
    op = "check_and_alert" => last_health_status = health_result.status

\* an observation whose only alert was attempted and not delivered
C17_Witness ==
    /\ op = "check_and_alert"
    /\ health_result.status = "unhealthy"
    /\ last_health_status = "unhealthy"
    /\ Len(calls) = 1
    /\ calls[1].attempted # {}
    /\ calls[1].delivered = {}
    /\ calls[1].ret = FALSE

(* C18: consecutive_failures is never negative; an Unhealthy observation
   adds exactly 1 to it, a Healthy or Degraded observation sets it to 0, so
   it counts the Unhealthy observations in a row ending at the call. *)
C18_FailureCounter ==
    [][op' = "check_and_alert" =>
          /\ consecutive_failures' >= 0
          /\ health_result'.status = "unhealthy" =>
                consecutive_failures' = consecutive_failures + 1
          /\ health_result'.status \in {"healthy", "degraded"} =>
                consecutive_failures' = 0]_vars

\* a Degraded observation after an Unhealthy one that had been announced
C18_Witness ==
    /\ op = "check_and_alert"
    /\ health_result.status = "degraded"
    /\ consecutive_failures = 0
    /\ \E i \in DOMAIN alert_history :
          alert_history[i].title = <<"Service Health Degraded">>

(* C19: a change from Healthy to Degraded, from Degraded to Healthy or from
   Unhealthy to Degraded emits none of the overall-status alerts and still
   sets last_health_status to the new status; "Service Health Recovered" is
   emitted only when the status before the call was Unhealthy and the
   observed one is Healthy. *)
C19_QuietTransitions ==
    [][op' = "check_and_alert" =>
          LET current == health_result'.status
              overall == {<<"Service Health Degraded">>,
                          <<"Service Health Recovered">>,
                          <<"Service Continuously Unhealthy">>}
          IN  /\ <<last_health_status, current>> \in
                    {<<"healthy", "degraded">>, <<"degraded", "healthy">>,
                     <<"unhealthy", "degraded">>} =>
                    /\ \A k \in DOMAIN calls' :
                          calls'[k].alert.title \notin overall
                    /\ last_health_status' = current
              /\ CallsTitled(calls', <<"Service Health Recovered">>) # << >> =>
                    /\ last_health_status = "unhealthy"
                    /\ current = "healthy"]_vars

\* Degraded was observed after Unhealthy and no call was made
C19_Witness ==
    /\ op = "check_and_alert"
    /\ health_result.status = "degraded"
    /\ last_health_status = "degraded"
    /\ calls = << >>
    /\ consecutive_failures = 0
    /\ Len(alert_history) = 2
    /\ alert_history[1].title = <<"Service Health Degraded">>
    /\ alert_history[1].timestamp = now

(* C15: of two concurrent send_alert calls for alerts with the same key,
   never both pass the cooldown test and are both delivered. *)
C15_NoDoubleDelivery ==
    \A i \in DOMAIN tasks, j \in DOMAIN tasks :
        (/\ i # j
         /\ tasks[i].kind = "send" /\ tasks[j].kind = "send"
         /\ tasks[i].pc = "done" /\ tasks[j].pc = "done"
         /\ tasks[i].alert.source \o <<"_">> \o tasks[i].alert.title
               = tasks[j].alert.source \o <<"_">> \o tasks[j].alert.title)
        => ~(/\ tasks[i].passed /\ tasks[j].passed
             /\ tasks[i].delivered # {} /\ tasks[j].delivered # {})

\* two sends of one key were handed to the loop together: the one that ran
\* first was delivered, the other was held back
C15_Witness ==
    /\ Len(tasks) = 2
    /\ tasks[1].kind = "send" /\ tasks[2].kind = "send"
    /\ tasks[1].alert = tasks[2].alert
    /\ tasks[1].pc = "done" /\ tasks[2].pc = "done"
    /\ tasks[2].passed /\ tasks[2].delivered # {}
    /\ ~tasks[1].passed /\ tasks[1].delivered = {}
    /\ Len(alert_history) = 1

(* C16: concurrent check_and_alert calls do not interleave on the tracker:
   no two calls are midway at the same time, every call leaves
   last_health_status and consecutive_failures as its own updates of the
   values it found make them, of two calls one found what the other left,
   and when all calls have returned the tracker is as the last of them left
   it, that is as after the calls in some sequential order. *)
C16_TrackerSerial ==
    LET ids == {i \in DOMAIN tasks : tasks[i].kind = "check"}
        done == {i \in ids : tasks[i].pc = "done"}
        midway == {i \in ids : tasks[i].pc \notin {"start", "done"}}
        alone(i) ==
            [last |-> tasks[i].h.status,
             failures |-> IF tasks[i].h.status = "unhealthy"
                          THEN tasks[i].pre.failures + 1
                          ELSE 0]
    IN  /\ Cardinality(midway) <= 1
        /\ \A i \in done : tasks[i].post = alone(i)
        /\ \A i \in done, j \in done :
              i # j => \/ tasks[j].pre = tasks[i].post
                       \/ tasks[i].pre = tasks[j].post
        /\ (done # {} /\ done = ids) =>
              \E i \in done :
                  /\ \A j \in done \ {i} : tasks[i].pre = tasks[j].post
                  /\ last_health_status = tasks[i].post.last
                  /\ consecutive_failures = tasks[i].post.failures

\* two Unhealthy observations were handed to the loop together; the second
\* ran first
C16_Witness ==
    /\ Len(tasks) = 2
    /\ tasks[1].kind = "check" /\ tasks[2].kind = "check"
    /\ tasks[1].pc = "done" /\ tasks[2].pc = "done"
    /\ tasks[1].h.status = "unhealthy" /\ tasks[2].h.status = "unhealthy"
    /\ tasks[2].pre = [last |-> "healthy", failures |-> 0]
    /\ tasks[2].post = [last |-> "unhealthy", failures |-> 1]
    /\ tasks[1].pre = tasks[2].post
    /\ tasks[1].post = [last |-> "unhealthy", failures |-> 2]
    /\ last_health_status = "unhealthy"
    /\ consecutive_failures = 2

(* C21: get_recent_alerts(hours) returns exactly the alerts of the history
   whose timestamp is strictly later than now minus the window, in the order
   of the history, and leaves the history as it is. *)
C21_RecentAlerts ==
    [][op' = "get_recent_alerts" =>
          LET ret == calls'[1].ret
              cutoff == now - 60 * calls'[1].hours
              keep == {i \in DOMAIN alert_history :
                          alert_history[i].timestamp > cutoff}
              place(k) == CHOOSE i \in keep :
                              Cardinality({j \in keep : j < i}) = k - 1
          IN  /\ alert_history' = alert_history
              /\ Len(ret) = Cardinality(keep)
              /\ \A k \in 1..Len(ret) : ret[k] = alert_history[place(k)]]_vars

\* an hour after the first alert: it lies exactly at the cutoff and is left
\* out, the later one is returned
C21_Witness ==
    /\ op = "get_recent_alerts"
    /\ now = 60
    /\ calls[1].hours = 1
    /\ Len(alert_history) = 2
    /\ alert_history[1].timestamp = 0
    /\ alert_history[2].timestamp = 30
    /\ calls[1].ret = <<alert_history[2]>>

(* C22: a probe whose internal call fails (the import of the analyzer, the
   trial inference, psutil, the dependency check) yields a component of its
   own name with status Unhealthy. *)
C22_FailureIsUnhealthy ==
    op = "check_all" =>
        LET comps == health_result.components
            failed == [i \in 1..4 |->
                         CASE i = 1 -> \/ env.import_analyzer = "raise"
                                       \/ /\ env.is_healthy
                                          /\ env.test_result = "raise"
                           [] i = 2 -> env.memory < 0
                           [] i = 3 -> env.disk < 0
                           [] i = 4 -> env.dependencies = "raise"]
        IN  \A i \in 1..4 :
                failed[i] => /\ comps[i].name = checks[i]
                             /\ comps[i].status = "unhealthy"

(* C23: the memory probe and the disk probe give Unhealthy for a usage
   above 90 percent, Degraded for a usage above 80 and up to 90, and Healthy
   for a usage up to 80. *)
C23_UsageThresholds ==
    op = "check_all" =>
        \A i \in {2, 3} :
            LET p == IF i = 2 THEN env.memory ELSE env.disk
                s == health_result.components[i].status
            IN  p >= 0 =>
                  /\ p > 90 => s = "unhealthy"
                  /\ (80 < p /\ p <= 90) => s = "degraded"
                  /\ p <= 80 => s = "healthy"

\* the memory at exactly 90 percent, the disk at exactly 80
C23_Witness ==
    /\ op = "check_all"
    /\ env.memory = 90
    /\ env.disk = 80
    /\ health_result.components[2] = [name |-> "memory", status |-> "degraded"]
    /\ health_result.components[3] = [name |-> "disk", status |-> "healthy"]

(* C27: the names of the components of one OverallHealth are pairwise
   distinct, whatever the probes found and whichever of them failed. *)
C27_DistinctNames ==
    op = "check_all" =>
        \A i \in DOMAIN health_result.components,
           j \in DOMAIN health_result.components :
            i # j => health_result.components[i].name
                        # health_result.components[j].name

\* the model probe gave no ComponentHealth while the reads of the memory and
\* of the disk failed
C27_Witness ==
    /\ op = "check_all"
    /\ env.import_analyzer = "ok" /\ env.is_healthy /\ env.test_result = "falsy"
    /\ env.memory < 0 /\ env.disk < 0
    /\ [i \in 1..4 |-> health_result.components[i].name]
          = <<"unknown", "memory", "disk", "dependencies">>

(* C24: the cooldown is keyed by the pair (source, title): a send is held
   back only if an alert of the same source and the same title went through
   before. *)
C24_KeyedByPair ==
    [][(op' = "send_alert" /\ alert_history' = alert_history) =>
          \E i \in DOMAIN alert_history :
              /\ alert_history[i].source = calls'[1].alert.source
              /\ alert_history[i].title = calls'[1].alert.title]_vars

(* C25: every OverallHealth that check_all produces for the health endpoint
   is handed to check_and_alert, so that after the request the tracker holds
   the status that was reported. *)
C25_EndpointFeedsTracker ==
    [][(op' = "health_check" /\ calls'[1].response.status_code = 200) =>
          last_health_status' = calls'[1].response.body.status]_vars

(* C26: GET /health answers 503 exactly when check_all raised; whenever
   check_all returned, the answer is 200 with the whole OverallHealth, also
   when the overall status or a component is Unhealthy. *)
C26_EndpointAnswers ==
    op = "health_check" =>
        LET c == calls[1]
        IN  /\ c.response.status_code = 503 <=> c.raised
            /\ ~c.raised =>
                  /\ c.response.status_code = 200
                  /\ c.response.body = health_result
                  /\ c.response.body.status \in {"healthy", "degraded",
                                                 "unhealthy"}
                  /\ Len(c.response.body.components) = 4

\* an Unhealthy service is reported with status code 200
C26_Witness ==
    /\ op = "health_check"
    /\ ~calls[1].raised
    /\ calls[1].response.status_code = 200
    /\ calls[1].response.body.status = "unhealthy"
    /\ calls[1].response.body.components[2].status = "unhealthy"

(* C28: a check_all call that follows another with the system unchanged
   returns the same overall status and the same component statuses, and no
   call changes the HealthChecker instance (start_time, checks). *)
C28_Idempotent ==
    [][op' = "health_check" =>
          /\ health_checker' = health_checker
          /\ (calls # << >> /\ ~calls[1].raised /\ ~calls'[1].raised) =>
                LET first == calls[1].response.body
                    second == calls'[1].response.body
                IN  /\ second.status = first.status
                    /\ Len(second.components) = Len(first.components)
                    /\ \A i \in DOMAIN first.components :
                          second.components[i].status
                              = first.components[i].status]_vars

\* a second request ten minutes or more after the instance was made, the
\* system unchanged since the request before
C28_Witness ==
    /\ op = "health_check"
    /\ calls[1].again
    /\ ~calls[1].raised
    /\ calls[1].response.body.uptime >= 10
    /\ calls[1].response.body.status = "unhealthy"
    /\ health_checker = [start_time |-> 0,
                         checks |-> <<"model", "memory", "disk",
                                      "dependencies">>]

(* C30: when the metrics provider fails, get_health_metrics gives an empty
   snapshot and does not raise: check_all returns an OverallHealth without
   metrics whose status is the worst status of its components. *)
C30_MetricsBestEffort ==
    op = "health_check" =>
        LET c == calls[1]
            comps == c.response.body.components
            worst == IF \E i \in DOMAIN comps : comps[i].status = "unhealthy"
                     THEN "unhealthy"
                     ELSE IF \E i \in DOMAIN comps : comps[i].status = "degraded"
                     THEN "degraded"
                     ELSE "healthy"
        IN  (~c.provider_ok /\ ~c.fault) =>
                /\ ~c.raised
                /\ c.response.status_code = 200
                /\ c.response.body.metrics = {}
                /\ c.response.body.status = worst

\* the provider failed while the memory was above 90 percent
C30_Witness ==
    /\ op = "health_check"
    /\ ~calls[1].provider_ok
    /\ ~calls[1].fault
    /\ calls[1].response.body.metrics = {}
    /\ calls[1].response.body.status = "unhealthy"
    /\ health_result = calls[1].response.body

(* C29: for a batch of at most 10 texts and a loaded model, analyze_batch
   returns one result per text in the order of the texts; a text whose
   analysis fails has the result (NEGATIVE, 0.0, 0.0) and every other text
   has its own result. *)
C29_BatchIsolation ==
    (/\ op = "analyze_batch"
     /\ calls[1].model_loaded
     /\ Len(calls[1].texts) <= 10) =>
        LET texts == calls[1].texts
            ret == calls[1].ret
        IN  /\ calls[1].raised = None
            /\ Len(ret) = Len(texts)
            /\ \A i \in 1..Len(texts) :
                  /\ texts[i] = "bad" => ret[i] = <<"NEGATIVE", 0, 0>>
                  /\ texts[i] = "good" => ret[i] = <<"POSITIVE", 98, 1>>
                  /\ texts[i] = "poor" => ret[i] = <<"NEGATIVE", 91, 1>>

\* the second of three texts fails
C29_Witness ==
    /\ op = "analyze_batch"
    /\ calls[1].model_loaded
    /\ calls[1].texts = <<"good", "bad", "poor">>
    /\ calls[1].raised = None
    /\ calls[1].ret = <<(<<"POSITIVE", 98, 1>>), (<<"NEGATIVE", 0, 0>>),
                        (<<"NEGATIVE", 91, 1>>)>>

(* C31: with a delivering channel, a send made exactly 15 minutes after the
   last delivery of the same key is not held back. *)
C31_SentAtWindow ==
    [][\A alert \in DirectAlerts(now), outcome \in Outcomes :
          LET key == alert.source \o <<"_">> \o alert.title
          IN  (/\ SendAlertWith(alert, outcome)
               /\ Delivering(outcome) # {}
               /\ Stamped(key)
               /\ SinceStamp(key) = 15) =>
                    /\ calls'[1].ret = TRUE
                    /\ alert_history' = Append(alert_history, alert)]_vars

(* C33: with no channel configured, every send_alert call appends its alert
   to the history, attempts nothing and returns false, and the cooldown map
   is and stays empty, also when the same key is sent again. *)
C33_NoChannelNoCooldown ==
    [][\A alert \in DirectAlerts(now), outcome \in Outcomes :
          (/\ SendAlertWith(alert, outcome)
           /\ ~settings.ALERT_EMAIL
           /\ ~settings.ALERT_SLACK_WEBHOOK) =>
                /\ alert_cooldown = << >>
                /\ alert_cooldown' = << >>
                /\ alert_history' = Append(alert_history, alert)
                /\ calls'[1].ret = FALSE
                /\ calls'[1].attempted = {}
                /\ calls'[1].delivered = {}]_vars

\* the same alert was sent twice at one instant and recorded twice
C33_Witness ==
    /\ ~settings.ALERT_EMAIL
    /\ ~settings.ALERT_SLACK_WEBHOOK
    /\ op = "send_alert"
    /\ Len(alert_history) = 2
    /\ alert_history[1] = alert_history[2]
    /\ alert_history[2].timestamp = now
    /\ calls[1].ret = FALSE
    /\ calls[1].attempted = {}
    /\ alert_cooldown = << >>

(* C38: when the analyzer is imported and healthy and the trial inference
   returns without raising, whatever it returns, the first component
   check_all reports is named "model". *)
C38_ModelAlwaysNamed ==
    (/\ op = "check_all"
     /\ env.import_analyzer = "ok"
     /\ env.is_healthy
     /\ env.test_result # "raise") =>
          /\ health_result.components[1].name = "model"
          /\ health_result.components[1].status = HEALTHY

(* C36: an outage present from the first observation is counted and not
   announced as a transition: the tracker starts unset with no failure
   counted; an Unhealthy observation of the unset tracker counts 1 and
   emits neither "Service Health Degraded" nor the Critical alert; each
   Unhealthy observation after an Unhealthy one adds 1 and emits no
   "Service Health Degraded", and the Critical alert is emitted on the third
   of the row and not on the second. *)
C36_OutageFromStart ==
    [][(op' = "check_and_alert" /\ health_result'.status = "unhealthy") =>
          LET deg == CallsTitled(calls', <<"Service Health Degraded">>)
              crit == CallsTitled(calls', <<"Service Continuously Unhealthy">>)
          IN  /\ last_health_status = None =>
                    /\ consecutive_failures = 0
                    /\ consecutive_failures' = 1
                    /\ deg = << >>
                    /\ crit = << >>
              /\ last_health_status = "unhealthy" =>
                    /\ consecutive_failures' = consecutive_failures + 1
                    /\ deg = << >>
                    /\ consecutive_failures' = 2 => crit = << >>
                    /\ consecutive_failures' = 3 =>
                          /\ Len(crit) = 1
                          /\ crit[1].alert.level = "critical"
              /\ last_health_status' = "unhealthy"]_vars

\* the third Unhealthy observation of a run that began Unhealthy: the
\* Critical alert was handed over, and no "Service Health Degraded" alert
\* was ever recorded or stamped
C36_Witness ==
    /\ op = "check_and_alert"
    /\ last_health_status = "unhealthy"
    /\ consecutive_failures = 3
    /\ CallsTitled(calls, <<"Service Continuously Unhealthy">>) # << >>
    /\ \A i \in DOMAIN alert_history :
          alert_history[i].title # <<"Service Health Degraded">>
    /\ ~Stamped(DefaultSource \o <<"_">> \o <<"Service Health Degraded">>)

\* the alerts of the history that have the title
HistoryTitled(history, title) == SelectSeq(history, LAMBDA a : a.title = title)

(* C34: the overall-status alerts pass through the cooldown like every
   alert: a "Service Health Degraded" or "Service Health Recovered" alert
   handed over 15 minutes or less after an alert of its title was delivered
   is suppressed: send_alert returns false, no channel is attempted and the
   history gains no alert of that title. *)
C34_TransitionsCoolDown ==
    [][op' = "check_and_alert" =>
          \A title \in {<<"Service Health Degraded">>,
                        <<"Service Health Recovered">>} :
              LET key == DefaultSource \o <<"_">> \o title
                  cs == CallsTitled(calls', title)
              IN  (/\ cs # << >>
                   /\ Stamped(key)
                   /\ SinceStamp(key) <= 15) =>
                        /\ Len(cs) = 1
                        /\ cs[1].ret = FALSE
                        /\ cs[1].attempted = {}
                        /\ cs[1].delivered = {}
                        /\ HistoryTitled(alert_history', title)
                              = HistoryTitled(alert_history, title)
                        /\ alert_cooldown'[key] = alert_cooldown[key]]_vars

\* Unhealthy, Healthy, Unhealthy, Healthy within one window: the first
\* alert of each title was delivered and is in the history, the second of
\* each is not, and the second recovery alert has just been refused
C34_Witness ==
    /\ op = "check_and_alert"
    /\ last_health_status = "healthy"
    /\ Len(calls) = 1
    /\ calls[1].alert.title = <<"Service Health Recovered">>
    /\ calls[1].ret = FALSE
    /\ Len(HistoryTitled(alert_history, <<"Service Health Degraded">>)) = 1
    /\ Len(HistoryTitled(alert_history, <<"Service Health Recovered">>)) = 1
    /\ \E i, j \in DOMAIN alert_history :
          /\ i < j
          /\ alert_history[i].title = <<"Service Health Degraded">>
          /\ alert_history[j].title = <<"Service Health Recovered">>
          /\ now - alert_history[i].timestamp <= 15
    /\ Stamped(DefaultSource \o <<"_">> \o <<"Service Health Degraded">>)
    /\ Stamped(DefaultSource \o <<"_">> \o <<"Service Health Recovered">>)

(* C35: on an Unhealthy observation the alert "Service Continuously
   Unhealthy" is handed to send_alert exactly when consecutive_failures is 3
   or more after the call, hence on every cycle of an outage from the third
   on; a hand-over is delivered only if no alert of the key was delivered in
   the last 15 minutes, and it is delivered when a channel delivers and the
   last delivery is more than 15 minutes old. *)
C35_CriticalEveryCycle ==
    [][\A h \in CycleHealths, outcome \in Outcomes :
          (ObserveCycleWith(h, outcome) /\ h.status = "unhealthy") =>
              LET key == DefaultSource \o <<"_">>
                            \o <<"Service Continuously Unhealthy">>
                  crit == CallsTitled(calls',
                                      <<"Service Continuously Unhealthy">>)
              IN  /\ consecutive_failures' >= 3 => Len(crit) = 1
                  /\ consecutive_failures' < 3 => crit = << >>
                  /\ \A k \in DOMAIN crit :
                        /\ crit[k].ret =>
                              \/ ~Stamped(key)
                              \/ SinceStamp(key) > 15
                        /\ (/\ Stamped(key)
                            /\ SinceStamp(key) > 15
                            /\ Delivering(outcome) # {}) =>
                                  /\ crit[k].ret
                                  /\ crit[k].delivered # {}
                                  /\ alert_cooldown'[key] = now]_vars

\* the outage went on for more than a window: the Critical alert delivered
\* at the third observation is delivered again at a later one
C35_Witness ==
    /\ op = "check_and_alert"
    /\ consecutive_failures >= 4
    /\ \E k \in DOMAIN calls :
          /\ calls[k].alert.title = <<"Service Continuously Unhealthy">>
          /\ calls[k].ret
    /\ \E i, j \in DOMAIN alert_history :
          /\ alert_history[i].title = <<"Service Continuously Unhealthy">>
          /\ alert_history[j].title = <<"Service Continuously Unhealthy">>
          /\ alert_history[j].timestamp = now
          /\ alert_history[j].timestamp - alert_history[i].timestamp > 15

(* C37: when two probes of one cycle failed and both became components
   named "unknown", check_and_alert hands over two alerts of the same title
   and the same cooldown key; with a delivering channel the second is
   suppressed, so at most one of the two is delivered and the history gains
   at most one of them. *)
C37_UnknownsShareKey ==
    [][\A outcome \in Outcomes :
          ObserveCycleWith(TwoProbesFailed, outcome) =>
              LET title == <<"Component ", "unknown", " Unhealthy">>
                  unk == CallsTitled(calls', title)
              IN  /\ Len(unk) = 2
                  /\ unk[1].alert.source \o <<"_">> \o unk[1].alert.title
                        = unk[2].alert.source \o <<"_">> \o unk[2].alert.title
                  /\ Delivering(outcome) # {} =>
                        /\ ~(unk[1].ret /\ unk[2].ret)
                        /\ unk[2].ret = FALSE
                        /\ unk[2].delivered = {}
                        /\ Len(HistoryTitled(alert_history', title))
                              <= Len(HistoryTitled(alert_history, title)) + 1]_vars

\* both alerts were handed over, the first was delivered and recorded, the
\* second was refused
C37_Witness ==
    /\ op = "check_and_alert"
    /\ health_result = TwoProbesFailed
    /\ LET title == <<"Component ", "unknown", " Unhealthy">>
           unk == CallsTitled(calls, title)
       IN  /\ Len(unk) = 2
           /\ unk[1].ret
           /\ unk[1].delivered = {"slack"}
           /\ ~unk[2].ret
           /\ Len(HistoryTitled(alert_history, title)) = 1

\* the score of the item of a result that has the label
ScoreIn(result, label) ==
    LET i == CHOOSE k \in DOMAIN result : result[k].label = label
    IN  result[i].score

(* C32: for a three-way output _postprocess_result never returns NEUTRAL;
   when the neutral score is the highest it returns POSITIVE with the
   positive score if that is strictly greater than the negative score, and
   NEGATIVE with the negative score otherwise; when a score exceeds the
   neutral one it returns a label of the highest score, with that score.
   When the neutral score shares the highest place, the result is the one
   of the first case or the one of the second. *)
C32_NeutralCollapsed ==
    (op = "_postprocess_result" /\ Len(calls[1].result) = 3) =>
        \E f \in LabelFamilies :
            LET result == calls[1].result
                neg == ScoreIn(result, f[1])
                neu == ScoreIn(result, f[2])
                pos == ScoreIn(result, f[3])
                ret == calls[1].ret
            IN  /\ {result[i].label : i \in 1..3} = {f[1], f[2], f[3]}
                /\ ret[1] # "NEUTRAL"
                /\ (neu > neg /\ neu > pos) =>
                      ret = IF pos > neg THEN <<"POSITIVE", pos>>
                                         ELSE <<"NEGATIVE", neg>>
                /\ (neu < neg \/ neu < pos) =>
                      \/ ret = <<"POSITIVE", pos>> /\ pos >= neg
                      \/ ret = <<"NEGATIVE", neg>> /\ neg >= pos
                /\ (neu >= neg /\ neu >= pos /\ (neu = neg \/ neu = pos)) =>
                      \/ ret = IF pos > neg THEN <<"POSITIVE", pos>>
                                            ELSE <<"NEGATIVE", neg>>
                      \/ ret = <<"POSITIVE", pos>> /\ pos = neu
                      \/ ret = <<"NEGATIVE", neg>> /\ neg = neu

\* neutral scores highest and the other two are equal: NEGATIVE is returned
\* with the negative score
C32_Witness ==
    /\ op = "_postprocess_result"
    /\ calls[1].result = <<Item("negative", 10), Item("neutral", 60),
                           Item("positive", 10)>>
    /\ calls[1].ret = <<"NEGATIVE", 10>>

(* C39: a request to POST /analyze or to POST /analyze/batch that meets an
   analyzer that is not healthy is answered with status 503. *)
C39_Unavailable503 ==
    (/\ op \in {"analyze_sentiment", "analyze_batch_sentiment"}
     /\ ~(calls[1].analyzer.model_loaded /\ calls[1].analyzer.classifier)) =>
          /\ calls[1].response.status_code = 503
          /\ calls[1].response.detail = "Sentiment analysis service unavailable"

====
